---------------------------- MODULE Spec2Model ----------------------------
(***************************************************************************)
(* Model of the debug-protocol client (src/src/dap/dap-client.ts, class    *)
(* DAPClient) and of the tool handlers of the server that drive it         *)
(* (src/unnamed/part_003, GodotServer.handleGetCallStack); of the framing  *)
(* of the protocol's byte stream (DAPClient.handleData, sendRequest); and  *)
(* of the capture of the output of the launched process                    *)
(* (src/unnamed/part_003, GodotServer.handleRunProject and the handlers    *)
(* that read and clear what it captured); of the symbol table built from   *)
(* a script (parseGDScriptContent, getVariablesAtLine) and the tool that   *)
(* uses it (GodotServer.handleGetLocalVariables); of the bridge plugin of  *)
(* the editor (src/unnamed/part_001); and of the server's replacement of   *)
(* a client (handleConnectDebugger) and of a running process               *)
(* (handleRunProject), and its expansion of a value (expandVariableValue). *)
(*                                                                         *)
(* Scheduling is single-threaded and event-driven: every action below is   *)
(* one callback of the event loop (an API call, a socket event, a timer)   *)
(* together with the promise continuations it releases, which run as       *)
(* microtasks before the next callback.                                    *)
(***************************************************************************)
EXTENDS Integers, Sequences, FiniteSets, TLC

(***************************************************************************)
(* Bounds                                                                  *)
(***************************************************************************)
\* number of sendRequest calls made in one behaviour
MaxCalls == 2
\* number of segments the debug server writes in one behaviour
MaxFrames == 2
\* number of stdout/stderr data events of one behaviour
MaxChunks == 3
\* number of run_project calls of one behaviour
MaxRuns == 1
\* number of lines of a script
MaxLines == 4
\* largest stackFrame argument of a get_local_variables call
MaxStackFrame == 1
\* number of commands written to the bridge in one behaviour
MaxCommands == 3
\* number of clients connect_debugger replaces in one behaviour
MaxReplacements == 1
\* maxDepth of an expansion is at most this
MaxDepth == 3
\* the longest list of children the debug server answers with
ManyChildren == 12

(***************************************************************************)
(* Constants of the program                                                *)
(***************************************************************************)
\* src/unnamed/part_003, line 101
MAX_DEBUG_MESSAGES == 500
\* src/unnamed/part_003, line 42
MAX_RUNTIME_ERRORS == 100
\* children.slice(0, 10), part_003 line 3834
ChildLimit == 10

(***************************************************************************)
(* Values                                                                  *)
(***************************************************************************)
Paths == {"a.gd", "res://b.gd"}

\* sourcePath.startsWith('res://') ? sourcePath : `res://${sourcePath}`
scriptOf(sourcePath) ==
    CASE sourcePath = "a.gd" -> "res://a.gd"
      [] sourcePath = "res://b.gd" -> "res://b.gd"
      [] OTHER -> sourcePath

bp1 == [line |-> 1, verified |-> TRUE]
bp2 == [line |-> 2, verified |-> FALSE]
bp5 == [line |-> 5, verified |-> TRUE]
BpLists == {<<bp5>>, <<bp1, bp2>>}

frame7 == [id |-> 7, name |-> "_process", line |-> 4]
FrameLists == {<<frame7>>}

\* a response body: absent (kind "none"), an object without the fields the
\* client reads (kind "obj", read as an empty list), or an object carrying
\* a list of breakpoints or of stack frames
NoBody == [kind |-> "none", val |-> << >>]
Bodies == {NoBody, [kind |-> "obj", val |-> << >>]}
            \cup {[kind |-> "bps", val |-> l] : l \in BpLists}
            \cup {[kind |-> "frames", val |-> l] : l \in FrameLists}

\* threadId carried by a stopped event: -1 = the event has no body,
\* 0 = body without (or with a zero) threadId
StopThreads == {-1, 0, 1, 2}

Responses == [type : {"response"}, request_seq : 1..(MaxCalls + 1),
              success : BOOLEAN, body : Bodies, event : {""}, threadId : {-1}]
Events == [type : {"event"}, request_seq : {0}, success : {FALSE},
           body : {NoBody}, event : {"stopped"}, threadId : StopThreads]
          \cup [type : {"event"}, request_seq : {0}, success : {FALSE},
                body : {NoBody},
                event : {"continued", "terminated", "output", "breakpoint", "exited"},
                threadId : {-1}]
\* a message that is neither a response nor an event (a reverse request)
Others == [type : {"request"}, request_seq : {0}, success : {FALSE},
           body : {NoBody}, event : {""}, threadId : {-1}]
Messages == Responses \cup Events \cup Others

EmptyMap == [k \in {} |-> 0]

NoResult == [tool |-> "", kind |-> "none", paused |-> FALSE, stack |-> << >>]

\* no call of expandVariableValue
NoExpansion == [heap |-> << >>, variable |-> << >>, maxDepth |-> 0,
                done |-> FALSE, text |-> << >>, requests |-> << >>]

\* no get_local_variables call is running: phase "idle"; "stack" = awaiting
\* stackTrace, "evaluate" = awaiting the evaluate of names[next]
NoLocalsCall == [phase |-> "idle", stackFrame |-> 0, maxDepth |-> 0,
                 frameId |-> 0, names |-> << >>, next |-> 0,
                 allVariables |-> << >>,
                 \* history, read by the properties only: the tool was
                 \* called, isConnected() and isPaused() when the call
                 \* was made, a stopped event arrived during the call, how
                 \* every evaluate request of the call ended, a stopped or
                 \* continued event was handled after the frame was
                 \* obtained and before the last name was reached
                 \* (resumed), an evaluate request was sent after that
                 \* (staleSent)
                 called |-> FALSE, connectedAtCall |-> FALSE,
                 pausedAtCall |-> FALSE, stopped |-> FALSE,
                 evaluated |-> << >>,
                 resumed |-> FALSE, staleSent |-> FALSE]

NoLocalsResult == [kind |-> "none", message |-> "", variables |-> << >>]

\* new DAPClient()
NewClient ==
    [socket |-> 0, connected |-> FALSE, paused |-> FALSE,
     currentThreadId |-> 1, sequenceNumber |-> 1,
     pendingRequests |-> EmptyMap, capabilities |-> NoBody,
     breakpoints |-> << >>, sockState |-> "none", connTimer |-> FALSE,
     timers |-> {}, calls |-> << >>, rejects |-> 0, toolResult |-> NoResult,
     localsCall |-> NoLocalsCall, localsResult |-> NoLocalsResult,
     lastEvent |-> "none", sinceDisconnect |-> FALSE, replaced |-> << >>]

Range(seq) == {seq[k] : k \in 1..Len(seq)}

NoScriptInfo == [classVariables |-> << >>, functions |-> << >>, parsed |-> FALSE]

VARIABLES
    socket,           \* this.socket: 0 = null, 1 = the socket created last
    connected,        \* this.connected
    paused,           \* this.paused
    currentThreadId,  \* this.currentThreadId
    sequenceNumber,   \* this.sequenceNumber
    pendingRequests,  \* this.pendingRequests: seq -> [call, command]
    capabilities,     \* this.capabilities (NoBody = null)
    breakpoints,      \* this.breakpoints: insertion-ordered <<[path, bps]>>
    sockState,        \* state of the socket the client created last
    connTimer,        \* whether its 5000 ms connection timer is armed
    timers,           \* calls whose 10000 ms request timer is armed
    calls,            \* one record per request issued, in issue order
    rejects,          \* number of sendRequest calls rejected as not connected
    toolResult,       \* result of the last finished get_call_stack call
    localsCall,       \* the locals of the running handleGetLocalVariables
    localsResult,     \* what the last finished get_local_variables returned
    \* history, read by the properties only
    lastEvent,        \* last processed of stopped/continued/terminated/close
    sinceDisconnect,  \* disconnect() was called after that event
    replaced,         \* the list the last registry update replaced
    \* the frame codec of the client
    buffer,           \* this.buffer: the characters received and not consumed
    stream,           \* bytes written by the peer and not yet delivered
    \* history, read by the properties only
    sent,             \* the segments the peer wrote, in order
    dispatched,       \* the payloads handed to handleMessage, parsed
    \* the game process started by run_project and its output buffers
    activeProcess,    \* this.activeProcess: "null" or "running"
    debugMessages,    \* the array `debugMessages` of the stream handlers
    detached,         \* activeProcess.debugMessages is another array
    apDebugMessages,  \* activeProcess.debugMessages
    runtimeErrors,    \* runtimeErrors.errors (one object, shared)
    pendingErrorLine, \* `pendingErrorLine` of the stderr handler, << >> = null
    \* the environment: what the process has written
    emitted,          \* number of numbered lines written so far
    partialLine,      \* the stderr characters after the last newline
    chunks,           \* number of data events so far
    runs,             \* number of run_project calls so far
    \* history, read by the properties only
    debugLog,         \* every DebugMessage pushed since the process started
    debugCleared,     \* get_debug_output has cleared since the process started
    errorLog,         \* every RuntimeError pushed since the process started
    errorBase,        \* Len(errorLog) at the last clear of the error buffer
    stderrLines,      \* number of complete non-blank stderr lines
    stderrMessages,   \* number of DebugMessages pushed by the stderr handler
    startLines,       \* number of complete stderr lines that start an error
    \* the symbol table of a script
    content,          \* the script, as content.split('\n')
    scriptInfo,       \* the ScriptInfo parsed from it (NoScriptInfo = not yet)
    queryLine,        \* the line of the last scope query, 0 = none
    variables,        \* what getVariablesAtLine returned for it
    \* the bridge plugin of the editor and one client connection
    connection,       \* "none", "available" (not taken yet), "active" (in
                      \* active_connections), "closed" by the client, "removed"
    inbox,            \* the characters received and not read
    playing_scene,    \* EditorInterface.get_playing_scene(), << >> = stopped
    scene_root,       \* a scene is open in the editor
    responses,        \* the responses put on the connection, in order
    \* history, read by the properties only
    written,          \* the commands the client wrote, in order
    unread,           \* number of commands in inbox
    reads,            \* number of commands each get_data returned
    \* the server that owns the client; history, read by the properties only
    received,         \* the setBreakpoints responses that settled a call with
                      \* success and a body, as [path, bps, seq], in arrival
                      \* order
    oldProcess,       \* the process that run_project replaced, << >> = none:
                      \* alive (no exit event yet), id (its number among the
                      \* processes spawned) and t, what its handlers hold
    oldClients,       \* the clients connect_debugger has replaced, oldest
                      \* first: client (the DAPClient) and inFlight (its
                      \* calls that were pending when it was replaced)
    expansion         \* a call of expandVariableValue: the debug server's
                      \* answers (heap), the variable, maxDepth, and when
                      \* done the text returned and the variables requests
                      \* sent, as [ref, depth], in order

sessionVars == <<socket, connected, paused, currentThreadId, sequenceNumber,
                 pendingRequests, capabilities, breakpoints, sockState,
                 connTimer, timers, calls, rejects, toolResult, localsCall,
                 localsResult, lastEvent, sinceDisconnect, replaced>>

codecVars == <<buffer, stream, sent, dispatched>>

telemetryVars == <<activeProcess, debugMessages, detached, apDebugMessages,
                   runtimeErrors, pendingErrorLine, emitted,
                   partialLine, chunks, runs, debugLog, debugCleared,
                   errorLog, errorBase, stderrLines, stderrMessages,
                   startLines>>

scriptVars == <<content, scriptInfo, queryLine, variables>>

bridgeVars == <<connection, inbox, playing_scene, scene_root, responses,
                written, unread, reads>>

serverVars == <<received, oldProcess, oldClients, expansion>>

vars == <<sessionVars, codecVars, telemetryVars, scriptVars, bridgeVars,
          serverVars>>

\* the state as one value, so that a handler is a function from state to
\* state; an action binds each intermediate state once (\E s \in {e})
St == [socket |-> socket, connected |-> connected, paused |-> paused,
       currentThreadId |-> currentThreadId, sequenceNumber |-> sequenceNumber,
       pendingRequests |-> pendingRequests, capabilities |-> capabilities,
       breakpoints |-> breakpoints, sockState |-> sockState,
       connTimer |-> connTimer, timers |-> timers, calls |-> calls,
       rejects |-> rejects,
       toolResult |-> toolResult, localsCall |-> localsCall,
       localsResult |-> localsResult, lastEvent |-> lastEvent,
       sinceDisconnect |-> sinceDisconnect, replaced |-> replaced]

Session(s) ==
    /\ socket' = s.socket
    /\ connected' = s.connected
    /\ paused' = s.paused
    /\ currentThreadId' = s.currentThreadId
    /\ sequenceNumber' = s.sequenceNumber
    /\ pendingRequests' = s.pendingRequests
    /\ capabilities' = s.capabilities
    /\ breakpoints' = s.breakpoints
    /\ sockState' = s.sockState
    /\ connTimer' = s.connTimer
    /\ rejects' = s.rejects
    /\ timers' = s.timers
    /\ calls' = s.calls
    /\ lastEvent' = s.lastEvent
    /\ sinceDisconnect' = s.sinceDisconnect
    /\ replaced' = s.replaced
    /\ toolResult' = s.toolResult
    /\ localsCall' = s.localsCall
    /\ localsResult' = s.localsResult

\* a step of the session that leaves the rest of the program alone
Become(s) ==
    /\ Session(s)
    /\ UNCHANGED <<codecVars, telemetryVars, scriptVars, bridgeVars, serverVars>>

InitSession ==
    /\ socket = 0
    /\ connected = FALSE
    /\ paused = FALSE
    /\ currentThreadId = 1
    /\ sequenceNumber = 1
    /\ pendingRequests = EmptyMap
    /\ capabilities = NoBody
    /\ breakpoints = << >>
    /\ sockState = "none"
    /\ connTimer = FALSE
    /\ rejects = 0
    /\ timers = {}
    /\ calls = << >>
    /\ lastEvent = "none"
    /\ sinceDisconnect = FALSE
    /\ replaced = << >>
    /\ toolResult = NoResult
    /\ localsCall = NoLocalsCall
    /\ localsResult = NoLocalsResult

InitCodec ==
    /\ buffer = << >>
    /\ stream = << >>
    /\ sent = << >>
    /\ dispatched = << >>

\* no process has been started; the stream handlers do not exist yet
InitTelemetry ==
    /\ activeProcess = "null"
    /\ debugMessages = << >>
    /\ detached = FALSE
    /\ apDebugMessages = << >>
    /\ runtimeErrors = << >>
    /\ pendingErrorLine = << >>
    /\ emitted = 0
    /\ partialLine = << >>
    /\ chunks = 0
    /\ runs = 0
    /\ debugLog = << >>
    /\ debugCleared = FALSE
    /\ errorLog = << >>
    /\ errorBase = 0
    /\ stderrLines = 0
    /\ stderrMessages = 0
    /\ startLines = 0

\* no script has been read
InitScript ==
    /\ content = << >>
    /\ scriptInfo = NoScriptInfo
    /\ queryLine = 0
    /\ variables = << >>

\* the plugin listens, no client has connected, the editor shows a scene
\* and plays nothing
InitBridge ==
    /\ connection = "none"
    /\ inbox = << >>
    /\ playing_scene = << >>
    /\ scene_root = TRUE
    /\ responses = << >>
    /\ written = << >>
    /\ unread = 0
    /\ reads = << >>

InitServer ==
    /\ received = << >>
    /\ oldProcess = << >>
    /\ oldClients = << >>
    /\ expansion = NoExpansion

Init ==
    /\ InitSession /\ InitCodec /\ InitTelemetry /\ InitScript /\ InitBridge
    /\ InitServer

(***************************************************************************)
(* The symbol table of a script: parseGDScriptContent, getVariablesAtLine  *)
(***************************************************************************)
\* a line of a script: the number of whitespace characters it starts with
\* (line.length - line.trimStart().length) and the words and punctuation
\* that follow them (line.trimStart()); declarations carry no type
scriptLine(indent, text) == [indent |-> indent, text |-> text]

\* the tokens that \w+ matches
Words == {"func", "var", "const", "for", "in", "class", "self",
          "a", "b", "c", "f", "g", "h", "i", "v", "x", "y", "C", "1"}

NoFunction == [name |-> "", startLine |-> 0, endLine |-> 0,
               parameters |-> << >>, localVariables |-> << >>]

\* trimmedLine.startsWith('#')
startsWithHash(text) == text # << >> /\ text[1] = "#"

\* index of the first ')' of the text at or after j, 0 = none
RECURSIVE closing(_, _)
closing(text, j) ==
    IF j > Len(text) THEN 0
    ELSE IF text[j] = ")" THEN j
    ELSE closing(text, j + 1)

\* a function-definition pattern that accepts leading whitespace
funcPattern_AnyIndent(line) ==
    /\ Len(line.text) >= 4
    /\ line.text[1] = "func"
    /\ line.text[2] \in Words
    /\ line.text[3] = "("
    /\ closing(line.text, 4) # 0

\* line.match(/^func\s+(\w+)\s*\(([^)]*)\)/): the pattern is anchored at the
\* first character of the line, not of trimmedLine
funcPattern(line) ==
    /\ line.indent = 0
    /\ Len(line.text) >= 4
    /\ line.text[1] = "func"
    /\ line.text[2] \in Words
    /\ line.text[3] = "("
    /\ closing(line.text, 4) # 0

\* funcMatch[2]
paramsStr(line) == SubSeq(line.text, 4, closing(line.text, 4) - 1)

\* paramsStr.split(','), and of every part the word it starts with
RECURSIVE parametersFrom(_, _, _)
parametersFrom(str, j, atStart) ==
    IF j > Len(str) THEN << >>
    ELSE IF str[j] = "," THEN parametersFrom(str, j + 1, TRUE)
    ELSE IF atStart /\ str[j] \in Words
         THEN <<str[j]>> \o parametersFrom(str, j + 1, FALSE)
         ELSE parametersFrom(str, j + 1, FALSE)

parseParameters(str) == parametersFrom(str, 1, TRUE)

\* /^(var|const|@onready\s+var|@export\s+var)\s+(\w+)/, index of group 2
classVarPattern(line) ==
    IF /\ line.indent = 0 /\ Len(line.text) >= 2
       /\ line.text[1] \in {"var", "const"} /\ line.text[2] \in Words
    THEN 2
    ELSE IF /\ line.indent = 0 /\ Len(line.text) >= 3
            /\ line.text[1] \in {"@onready", "@export"}
            /\ line.text[2] = "var" /\ line.text[3] \in Words
         THEN 3
         ELSE 0

\* /^\s+(var|const)\s+(\w+)/
localVarPattern(line) ==
    /\ line.indent >= 1 /\ Len(line.text) >= 2
    /\ line.text[1] \in {"var", "const"} /\ line.text[2] \in Words

\* /^\s+for\s+(\w+)\s+in/
forPattern(line) ==
    /\ line.indent >= 1 /\ Len(line.text) >= 3
    /\ line.text[1] = "for" /\ line.text[2] \in Words /\ line.text[3] = "in"

\* /^\s+(\w+)\s*:?=\s*/
assignPattern(line) ==
    /\ line.indent >= 1 /\ Len(line.text) >= 2
    /\ line.text[1] \in Words /\ line.text[2] \in {"=", ":="}

\* a dedent test that needs a strictly smaller indentation
exits_Strict(currentIndent, functionIndent) == currentIndent < functionIndent

\* currentIndent <= functionIndent
exits(currentIndent, functionIndent) == currentIndent <= functionIndent

\* a list that grows at the front
pushFunction_Front(functions, func) == <<func>> \o functions

\* functions.push(currentFunction)
pushFunction(functions, func) == Append(functions, func)

\* currentFunction.endLine = i; functions.push(currentFunction)
closeFunction(p, i) ==
    [p EXCEPT !.functions = pushFunction(@, [p.currentFunction EXCEPT !.endLine = i]),
              !.currentFunction = NoFunction]

\* currentFunction.localVariables.push({ name, line: lineNum, scope })
pushLocal(p, name, lineNum, scope) ==
    [p EXCEPT !.currentFunction.localVariables =
                  Append(@, [name |-> name, line |-> lineNum, scope |-> scope])]

\* one iteration of the loop over the lines: line lines[i], lineNum = i + 1
parseLine(p, line, lineNum) ==
    LET i == lineNum - 1
        trimmedLine == line.text
        currentIndent == line.indent
        skipped == trimmedLine = << >> \/ startsWithHash(trimmedLine)
        p1 == IF /\ p.currentFunction # NoFunction
                 /\ ~skipped
                 /\ exits(currentIndent, p.functionIndent)
              THEN closeFunction(p, i)
              ELSE p
    IN  IF skipped THEN p1
        ELSE IF funcPattern(line)
        THEN LET p2 == IF p1.currentFunction # NoFunction
                       THEN closeFunction(p1, i)
                       ELSE p1
                 parameters == parseParameters(paramsStr(line))
             IN  [p2 EXCEPT
                    !.currentFunction =
                        [name |-> line.text[2],
                         startLine |-> lineNum,
                         endLine |-> lineNum,
                         parameters |-> parameters,
                         localVariables |->
                             [k \in 1..Len(parameters) |->
                                 [name |-> parameters[k], line |-> lineNum,
                                  scope |-> "parameter"]]],
                    !.functionIndent = currentIndent]
        ELSE IF currentIndent = 0 /\ classVarPattern(line) # 0
        THEN [p1 EXCEPT !.classVariables =
                 Append(@, [name |-> line.text[classVarPattern(line)],
                            line |-> lineNum, scope |-> "class"])]
        ELSE IF p1.currentFunction = NoFunction THEN p1
        ELSE IF localVarPattern(line)
        THEN pushLocal(p1, line.text[2], lineNum, "local")
        ELSE IF forPattern(line)
        THEN pushLocal(p1, line.text[2], lineNum, "local")
        ELSE IF assignPattern(line)
        THEN LET varName == line.text[1]
                 alreadyDeclared ==
                     \/ \E k \in 1..Len(p1.currentFunction.localVariables) :
                           p1.currentFunction.localVariables[k].name = varName
                     \/ \E k \in 1..Len(p1.classVariables) :
                           p1.classVariables[k].name = varName
             IN  IF ~alreadyDeclared /\ varName # "self"
                 THEN pushLocal(p1, varName, lineNum, "local")
                 ELSE p1
        ELSE p1

\* the loop, from line lineNum on
RECURSIVE parseFrom(_, _, _)
parseFrom(p, lines, lineNum) ==
    IF lineNum > Len(lines) THEN p
    ELSE parseFrom(parseLine(p, lines[lineNum], lineNum), lines, lineNum + 1)

parseGDScriptContent(lines) ==
    LET p == parseFrom([currentFunction |-> NoFunction, functionIndent |-> 0,
                        classVariables |-> << >>, functions |-> << >>],
                       lines, 1)
        last == IF p.currentFunction # NoFunction
                THEN closeFunction(p, Len(lines))
                ELSE p
    IN  [classVariables |-> last.classVariables,
         functions |-> last.functions,
         parsed |-> TRUE]

\* a scope test that ignores where the variable is declared
declaredBy_Anywhere(localVar, line) == TRUE

\* localVar.line <= line
declaredBy(localVar, line) == localVar.line <= line

\* index of the first function with startLine <= line <= endLine, 0 = none
RECURSIVE findFunction(_, _, _)
findFunction(functions, k, line) ==
    IF k > Len(functions) THEN 0
    ELSE IF line >= functions[k].startLine /\ line <= functions[k].endLine
         THEN k
         ELSE findFunction(functions, k + 1, line)

getVariablesAtLine(info, line) ==
    LET k == findFunction(info.functions, 1, line)
        inScope(localVar) == declaredBy(localVar, line)
    IN  info.classVariables
          \o (IF k = 0 THEN << >>
              ELSE SelectSeq(info.functions[k].localVariables, inScope))

\* the lines scripts are made of
classVarLine == scriptLine(0, <<"var", "v", "=", "1">>)
funcLineF == scriptLine(0, <<"func", "f", "(", "a", ",", "b", ")", ":">>)
funcLineG == scriptLine(0, <<"func", "g", "(", "c", ")", ":">>)
innerFuncLine == scriptLine(1, <<"func", "h", "(", "b", ")", ":">>)
localVarLine == scriptLine(1, <<"var", "x", "=", "1">>)
assignLine == scriptLine(1, <<"y", "=", "1">>)
forLine == scriptLine(1, <<"for", "i", "in", "v", ":">>)
nestedAssignLine == scriptLine(2, <<"x", "=", "1">>)
blankLine == scriptLine(0, << >>)
commentLine == scriptLine(0, <<"#", "note">>)

ScriptLines == {classVarLine, funcLineF, funcLineG, innerFuncLine,
                localVarLine, assignLine, forLine, nestedAssignLine,
                blankLine, commentLine}

\* content.split('\n') has at least one element
Contents == UNION {[1..n -> ScriptLines] : n \in 1..MaxLines}

(***************************************************************************)
(* sendRequest and the promise it returns                                  *)
(***************************************************************************)
\* a counter that is read but not advanced
nextSeq_NotAdvanced(n) == n

\* this.sequenceNumber++ leaves the counter one higher
nextSeq(n) == n + 1

\* this.pendingRequests.set(seq, {resolve, reject, command})
mapSet(m, k, v) == [x \in DOMAIN m \cup {k} |-> IF x = k THEN v ELSE m[x]]

\* this.pendingRequests.delete(seq)
mapDelete(m, k) == [x \in DOMAIN m \ {k} |-> m[x]]

\* a registry that merges the new list into the one it holds
registrySet_Merges(reg, sourcePath, bps) ==
    IF \E i \in 1..Len(reg) : reg[i].path = sourcePath
    THEN [i \in 1..Len(reg) |->
            IF reg[i].path = sourcePath
            THEN [path |-> sourcePath, bps |-> reg[i].bps \o bps] ELSE reg[i]]
    ELSE Append(reg, [path |-> sourcePath, bps |-> bps])

\* this.breakpoints.set(sourcePath, breakpoints): a Map keeps insertion
\* order, and setting an existing key replaces its value in place
registrySet(reg, sourcePath, bps) ==
    IF \E i \in 1..Len(reg) : reg[i].path = sourcePath
    THEN [i \in 1..Len(reg) |->
            IF reg[i].path = sourcePath
            THEN [path |-> sourcePath, bps |-> bps] ELSE reg[i]]
    ELSE Append(reg, [path |-> sourcePath, bps |-> bps])

\* this.breakpoints.get(sourcePath), [] when the path has no entry
entryOf(reg, sourcePath) ==
    IF \E i \in 1..Len(reg) : reg[i].path = sourcePath
    THEN reg[CHOOSE i \in 1..Len(reg) : reg[i].path = sourcePath].bps
    ELSE << >>

\* body.breakpoints || []   (resp. body.stackFrames || [])
listOf(body, kind) == IF body.kind = kind THEN body.val ELSE << >>

\* the executor of the promise sendRequest returns, when the guard of
\* line 336 lets it through: a sequence number is taken, the entry is
\* recorded, the request is written and the timer is armed
issue(s, command, origin, arg) ==
    LET seq == s.sequenceNumber
        c == Len(s.calls) + 1
    IN [s EXCEPT
          !.sequenceNumber = nextSeq(seq),
          !.pendingRequests = mapSet(@, seq, [call |-> c, command |-> command]),
          !.calls = Append(@, [command |-> command, origin |-> origin,
                               arg |-> arg, seq |-> seq,
                               outcome |-> "pending", settles |-> 0]),
          !.timers = @ \cup {c}]

\* resolve(response) / reject(error) of call c: a promise settles once, a
\* second resolve or reject is ignored by the promise
settle(s, c, outcome) ==
    LET counted == [s EXCEPT !.calls[c].settles = IF @ < 2 THEN @ + 1 ELSE @]
    IN IF s.calls[c].outcome # "pending"
       THEN counted
       ELSE [counted EXCEPT !.calls[c].outcome = outcome]

\* a sendRequest that takes a sequence number before it looks at the
\* connection
sendRequest_ConsumesSeq(s, command, origin, arg) ==
    IF s.socket = 0 \/ ~s.connected
    THEN [s EXCEPT !.rejects = @ + 1, !.sequenceNumber = nextSeq(@)]
    ELSE issue(s, command, origin, arg)

\* sendRequest, lines 334-365
sendRequest(s, command, origin, arg) ==
    IF s.socket = 0 \/ ~s.connected
    THEN [s EXCEPT !.rejects = @ + 1]
    ELSE issue(s, command, origin, arg)

\* a timer callback that rejects without looking at the pending table
requestTimeout_Unguarded(s, c) ==
    settle([s EXCEPT !.pendingRequests = mapDelete(@, s.calls[c].seq)],
           c, "timeout")

\* a timer callback that drops every pending entry
requestTimeout_ClearsAll(s, c) ==
    IF s.calls[c].seq \in DOMAIN s.pendingRequests
    THEN settle([s EXCEPT !.pendingRequests = EmptyMap], c, "timeout")
    ELSE s

\* a timer callback that removes the entry and forgets to reject
requestTimeout_NoReject(s, c) ==
    [s EXCEPT !.pendingRequests = mapDelete(@, s.calls[c].seq)]

\* the callback of the request timer of call c, lines 358-363
requestTimeout(s, c) ==
    LET seq == s.calls[c].seq IN
    IF seq \in DOMAIN s.pendingRequests
    THEN settle([s EXCEPT !.pendingRequests = mapDelete(@, seq)],
                c, "timeout")
    ELSE s

(***************************************************************************)
(* The callers awaiting a request                                          *)
(***************************************************************************)
\* a setBreakpoints that keeps the list a path already has
setBreakpointsCont_KeepsFirst(s, c, body) ==
    IF /\ s.calls[c].outcome = "resolved" /\ body.kind # "none"
       /\ entryOf(s.breakpoints, s.calls[c].arg) = << >>
    THEN [s EXCEPT !.breakpoints =
              registrySet(@, s.calls[c].arg, listOf(body, "bps"))]
    ELSE s

\* DAPClient.setBreakpoints after its await, lines 286-293
setBreakpointsCont(s, c, body) ==
    IF s.calls[c].outcome = "resolved" /\ body.kind # "none"
    THEN [s EXCEPT !.breakpoints =
              registrySet(@, s.calls[c].arg, listOf(body, "bps")),
                   !.replaced = entryOf(s.breakpoints, s.calls[c].arg)]
    ELSE s

\* DAPClient.initialize after its first await, lines 140-148
initializeCont(s, c, body) ==
    IF s.calls[c].outcome = "resolved"
    THEN LET s1 == IF body.kind # "none"
                   THEN [s EXCEPT !.capabilities = body] ELSE s
         IN sendRequest(s1, "configurationDone", "configurationDone", "")
    ELSE s

\* handleGetCallStack after `await this.dapClient.stackTrace(threadId)`
\* (DAPClient.stackTrace lines 173-177, then part_003 lines 3460-3486)
getCallStackCont(s, c, body) ==
    IF s.calls[c].outcome = "resolved"
    THEN [s EXCEPT !.toolResult =
              [tool |-> "get_call_stack", kind |-> "ok", paused |-> TRUE,
               stack |-> listOf(body, "frames")]]
    ELSE [s EXCEPT !.toolResult =
              [tool |-> "get_call_stack", kind |-> "error",
               paused |-> FALSE, stack |-> << >>]]

\* the values of Array.from(new Set(names)): the first occurrences, in order
RECURSIVE unique(_)
unique(names) ==
    IF names = << >> THEN << >>
    ELSE LET front == unique(SubSeq(names, 1, Len(names) - 1))
             last == names[Len(names)]
         IN  IF last \in Range(front) THEN front ELSE Append(front, last)

\* getVariableNamesAtLine, dap-client.ts lines 754-766
getVariableNamesAtLine(info, line) ==
    LET inScope == getVariablesAtLine(info, line)
    IN  unique(<<"self">> \o [k \in 1..Len(inScope) |-> inScope[k].name])

\* the scripts on disk: existsSync(scriptPath) and what readFileSync returns
Files == {"/game/a.gd"}
readFileSync(filePath) == <<funcLineG, localVarLine>>

\* parseGDScript, dap-client.ts lines 546-555
parseGDScript(filePath) == parseGDScriptContent(readFileSync(filePath))

\* a frame with a source, on line 2 of the script on disk
frameG == [id |-> 3, name |-> "g", line |-> 2, source |-> "/game/a.gd"]

\* what the debug server may answer to stackTrace and to evaluate
LocalsBodies ==
    {NoBody,
     [kind |-> "obj", val |-> << >>],
     [kind |-> "frames", val |-> <<frame7>>],
     [kind |-> "frames", val |-> <<frameG>>],
     [kind |-> "eval", val |-> [result |-> "5", variablesReference |-> 0]],
     [kind |-> "eval", val |-> [result |-> "<Object#1>", variablesReference |-> 3]]}

\* DAPClient.evaluate after its await, dap-client.ts lines 242-249, for a
\* response that has a body
evaluateResult(body) ==
    IF body.kind = "eval" THEN body.val
    ELSE [result |-> "", variablesReference |-> 0]

\* the type inferred from the text of the value, part_003 lines 3570-3596
inferredType(val) ==
    CASE val = "5" -> "int"
      [] val = "<Object#1>" -> "Object"
      [] OTHER -> "Variant"

\* frame.name.includes('process')
includesProcess(name) == name \in {"_process", "_physics_process"}

\* the candidate names for a frame, part_003 lines 3536-3557
variableNamesOf(frame) ==
    LET scriptPath == IF "source" \in DOMAIN frame THEN frame.source ELSE ""
        discovered == IF scriptPath # "" /\ scriptPath \in Files
                      THEN getVariableNamesAtLine(parseGDScript(scriptPath), frame.line)
                      ELSE <<"self">>
    IN  IF /\ frame.name \notin {"", "_ready", "_init"}
           /\ includesProcess(frame.name)
           /\ "delta" \notin Range(discovered)
        THEN Append(discovered, "delta")
        ELSE discovered

\* createErrorResponse(message, ...)
localsError(message) == [kind |-> "error", message |-> message, variables |-> << >>]

\* the handler returns
localsReturn(s, result) ==
    [s EXCEPT !.localsResult = result, !.localsCall.phase = "idle"]

\* a loop that gives up at the first name whose evaluation fails
onEvaluateError_Throws(s) ==
    localsReturn(s, localsError("Failed to get local variables"))

\* catch (evalErr): the name is skipped, part_003 lines 3604-3607
onEvaluateError(s) == s

\* the loop over variableNames from names[next] on, up to its next await or
\* to the return, part_003 lines 3562-3619
RECURSIVE evaluateNames(_)
evaluateNames(s) ==
    LET call == s.localsCall IN
    IF s.localsResult.kind # "none" THEN s
    ELSE IF call.next > Len(call.names)
    THEN localsReturn(s, [kind |-> "ok", message |-> "",
                          variables |-> call.allVariables])
    ELSE LET s1 == sendRequest(s, "evaluate", "evaluate", "") IN
         IF s1.rejects > s.rejects
         THEN evaluateNames([onEvaluateError(s1) EXCEPT
                                !.localsCall.next = @ + 1,
                                !.localsCall.evaluated =
                                    Append(@, [name |-> call.names[call.next],
                                               failed |-> TRUE, null |-> FALSE,
                                               result |-> evaluateResult(NoBody)])])
         ELSE [s1 EXCEPT !.localsCall.phase = "evaluate",
                         !.localsCall.staleSent = @ \/ call.resumed]

\* handleGetLocalVariables after `await this.dapClient.evaluate(varName,
\* frameId)`, part_003 lines 3566-3607
evaluateCont(s, c, body) ==
    LET call == s.localsCall
        varName == call.names[call.next]
        result == evaluateResult(body)
        answered == [s EXCEPT !.localsCall.evaluated =
                        Append(@, [name |-> varName,
                                   failed |-> s.calls[c].outcome # "resolved",
                                   null |-> body.kind = "none",
                                   result |-> result])]
        s1 == IF s.calls[c].outcome # "resolved" THEN onEvaluateError(answered)
              ELSE IF body.kind = "none" THEN answered
              ELSE [answered EXCEPT !.localsCall.allVariables =
                       Append(@, [name |-> varName,
                                  type |-> inferredType(result.result),
                                  value |-> result.result])]
    IN  evaluateNames([s1 EXCEPT !.localsCall.next = @ + 1])

\* handleGetLocalVariables after `await this.dapClient.stackTrace(threadId)`
\* (DAPClient.stackTrace lines 173-177, then part_003 lines 3509-3562)
localsStackCont(s, c, body) ==
    LET call == s.localsCall
        stackFrames == listOf(body, "frames")
    IN  IF s.calls[c].outcome # "resolved"
        THEN localsReturn(s, localsError("Failed to get local variables"))
        ELSE IF Len(stackFrames) = 0
        THEN localsReturn(s, [kind |-> "not_paused", message |-> "",
                              variables |-> << >>])
        ELSE IF call.stackFrame >= Len(stackFrames)
        THEN localsReturn(s, localsError("Stack frame does not exist"))
        ELSE LET frame == stackFrames[call.stackFrame + 1]
             IN  evaluateNames([s EXCEPT
                     !.localsCall.frameId = frame.id,
                     !.localsCall.names = variableNamesOf(frame),
                     !.localsCall.next = 1])

\* handleGetLocalVariables up to its first await, part_003 lines 3495-3507
getLocalVariables(s, stackFrame, maxDepth) ==
    LET fresh == [NoLocalsCall EXCEPT
                     !.stackFrame = stackFrame, !.maxDepth = maxDepth,
                     !.called = TRUE,
                     !.connectedAtCall = s.connected,
                     !.pausedAtCall = s.paused]
    IN  IF ~s.connected
        THEN [s EXCEPT !.localsCall = fresh,
                       !.localsResult = localsError("Not connected to debugger")]
        ELSE LET s1 == sendRequest(s, "stackTrace", "get_local_variables", "") IN
             IF s1.rejects > s.rejects
             THEN [s1 EXCEPT !.localsCall = fresh,
                             !.localsResult = localsError("Failed to get local variables")]
             ELSE [s1 EXCEPT !.localsCall = [fresh EXCEPT !.phase = "stack"],
                             !.localsResult = NoLocalsResult]

\* what the awaiting caller does once the promise of call c is settled
continuation(s, c, body) ==
    CASE s.calls[c].origin = "setBreakpoints" -> setBreakpointsCont(s, c, body)
      [] s.calls[c].origin = "initialize" -> initializeCont(s, c, body)
      [] s.calls[c].origin = "get_call_stack" -> getCallStackCont(s, c, body)
      [] s.calls[c].origin = "get_local_variables" -> localsStackCont(s, c, body)
      [] s.calls[c].origin = "evaluate" -> evaluateCont(s, c, body)
      [] OTHER -> s

\* the microtasks run after a callback: the continuation of the call the
\* callback settled (s0 is the state before the callback, s1 after it, body
\* the body of the response the promise resolved with)
\* once it has run, the closure of the caller (origin, arg) is garbage
resume(s0, s1, body) ==
    LET done == {c \in 1..Len(s0.calls) :
                    s1.calls[c].outcome # "pending" /\ s0.calls[c].outcome = "pending"}
    IN IF done = {} THEN s1
       ELSE LET c == CHOOSE c \in done : \A d \in done : c <= d
            IN [continuation(s1, c, body) EXCEPT !.calls[c].origin = "",
                                                 !.calls[c].arg = ""]

(***************************************************************************)
(* Incoming messages                                                       *)
(***************************************************************************)
\* an event handler whose 'continued' case forgets to clear paused
handleEvent_ContinuedKeepsPaused(s, m) ==
    CASE m.event = "stopped" ->
           [s EXCEPT !.paused = TRUE,
                     !.currentThreadId = IF m.threadId > 0 THEN m.threadId ELSE @,
                     !.lastEvent = "stopped", !.sinceDisconnect = FALSE]
      [] m.event = "continued" ->
           [s EXCEPT !.lastEvent = "continued", !.sinceDisconnect = FALSE]
      [] m.event = "terminated" ->
           [s EXCEPT !.paused = FALSE, !.lastEvent = "terminated",
                     !.sinceDisconnect = FALSE]
      [] OTHER -> s

\* handleEvent, lines 433-473
handleEvent(s, m) ==
    CASE m.event = "stopped" ->
           [s EXCEPT !.paused = TRUE,
                     !.currentThreadId = IF m.threadId > 0 THEN m.threadId ELSE @,
                     !.lastEvent = "stopped", !.sinceDisconnect = FALSE]
      [] m.event = "continued" ->
           [s EXCEPT !.paused = FALSE, !.lastEvent = "continued",
                     !.sinceDisconnect = FALSE]
      [] m.event = "terminated" ->
           [s EXCEPT !.paused = FALSE, !.lastEvent = "terminated",
                     !.sinceDisconnect = FALSE]
      [] OTHER -> s

\* correlation by arrival order: the oldest pending entry is taken
pendingGet_Oldest(pend, request_seq) ==
    IF DOMAIN pend = {} THEN {}
    ELSE {CHOOSE k \in DOMAIN pend : \A j \in DOMAIN pend : k <= j}

\* const pending = this.pendingRequests.get(response.request_seq)
pendingGet(pend, request_seq) ==
    IF request_seq \in DOMAIN pend THEN {request_seq} ELSE {}

\* a response branch that treats a failed request as the end of the session
handleResponse_FailureEndsSession(s, m) ==
    LET found == pendingGet(s.pendingRequests, m.request_seq) IN
    IF found = {} THEN s
    ELSE LET k == CHOOSE k \in found : TRUE
             c == s.pendingRequests[k].call
             s1 == [s EXCEPT !.pendingRequests = mapDelete(@, m.request_seq)]
         IN IF m.success
            THEN settle(s1, c, "resolved")
            ELSE settle([s1 EXCEPT !.paused = FALSE, !.currentThreadId = 1],
                        c, "failed")

\* the response branch of handleMessage, lines 411-423
handleResponse(s, m) ==
    LET found == pendingGet(s.pendingRequests, m.request_seq) IN
    IF found = {} THEN s
    ELSE LET k == CHOOSE k \in found : TRUE
             c == s.pendingRequests[k].call
             s1 == [s EXCEPT !.pendingRequests = mapDelete(@, m.request_seq)]
         IN IF m.success
            THEN settle(s1, c, "resolved")
            ELSE settle(s1, c, "failed")

\* handleMessage, lines 410-428
handleMessage(s, m) ==
    CASE m.type = "response" -> handleResponse(s, m)
      [] m.type = "event" -> handleEvent(s, m)
      [] OTHER -> s

(***************************************************************************)
(* The socket and its handlers                                             *)
(***************************************************************************)
\* socket.destroy(): no further data, the close event will follow
destroy(st) == IF st \in {"connecting", "open"} THEN "closing" ELSE st

\* the 'connect' handler, lines 63-68
onConnect(s) ==
    [s EXCEPT !.sockState = "open", !.connTimer = FALSE, !.connected = TRUE]

\* a close handler that forgets to clear paused
onClose_KeepsPaused(s) ==
    [s EXCEPT !.sockState = "closed", !.connected = FALSE,
              !.socket = 0, !.lastEvent = "close", !.sinceDisconnect = FALSE]

\* the 'close' handler, lines 74-79
onClose(s) ==
    [s EXCEPT !.sockState = "closed", !.connected = FALSE, !.paused = FALSE,
              !.socket = 0, !.lastEvent = "close", !.sinceDisconnect = FALSE]

\* the 'error' handler, lines 81-86
onError(s) ==
    [s EXCEPT !.sockState = "closing", !.connTimer = FALSE, !.connected = FALSE]

\* the callback of the connection timer, lines 58-61
connectTimeout(s) ==
    [s EXCEPT !.connTimer = FALSE,
              !.sockState = IF s.socket # 0 THEN destroy(@) ELSE @]

\* a disconnect that also forgets the breakpoints
disconnect_ClearsRegistry(s) ==
    [s EXCEPT !.sockState = destroy(@), !.socket = 0, !.connected = FALSE,
              !.paused = FALSE, !.sinceDisconnect = TRUE, !.breakpoints = << >>]

\* disconnect, lines 95-103 (the branch taken when this.socket is set)
disconnect(s) ==
    [s EXCEPT !.sockState = destroy(@), !.socket = 0, !.connected = FALSE,
              !.paused = FALSE, !.sinceDisconnect = TRUE]

\* connect, lines 52-90: a new socket, its timer and its handlers
connect(s) ==
    [s EXCEPT !.socket = 1, !.sockState = "connecting", !.connTimer = TRUE]

\* getBreakpoints, lines 215-229
RECURSIVE flatten(_, _)
flatten(reg, i) ==
    IF i > Len(reg) THEN << >>
    ELSE [k \in 1..Len(reg[i].bps) |->
            [script |-> scriptOf(reg[i].path),
             line |-> reg[i].bps[k].line,
             enabled |-> reg[i].bps[k].verified]] \o flatten(reg, i + 1)

getBreakpoints(reg) == flatten(reg, 1)

(***************************************************************************)
(* The frame codec: sendRequest's encoding and handleData's decoding       *)
(*                                                                         *)
(* A string is a sequence of UTF-16 code units, a Buffer a sequence of     *)
(* bytes.  An ASCII character is the same symbol as a code unit and as a   *)
(* byte; the header name is one symbol (the decoder matches it as a        *)
(* literal).  "U+00E9" is a character outside ASCII: one code unit, the    *)
(* two bytes 0xC3 0xA9.  "U+FFFD" is the replacement character.            *)
(***************************************************************************)
CL == "Content-Length:"
SP == " "
CR == "\r"
LF == "\n"
Separator == <<CR, LF, CR, LF>>
DigitChars == <<"0", "1", "2", "3", "4", "5", "6", "7", "8", "9">>
Whitespace == {SP, CR, LF}

\* Buffer.from(str, 'utf8'), what socket.write(str) puts on the wire
RECURSIVE utf8(_)
utf8(str) ==
    IF str = << >> THEN << >>
    ELSE (CASE Head(str) = "U+00E9" -> <<"0xC3", "0xA9">>
            [] Head(str) = "U+FFFD" -> <<"0xEF", "0xBF", "0xBD">>
            [] OTHER -> <<Head(str)>>) \o utf8(Tail(str))

\* Buffer.byteLength(str)
byteLength(str) == Len(utf8(str))

\* data.toString(): UTF-8 decoding of one chunk on its own; a byte
\* sequence that is not a complete character becomes U+FFFD
RECURSIVE toString(_)
toString(data) ==
    IF data = << >> THEN << >>
    ELSE IF Head(data) = "0xC3"
         THEN IF Len(data) >= 2 /\ data[2] = "0xA9"
              THEN <<"U+00E9">> \o toString(SubSeq(data, 3, Len(data)))
              ELSE <<"U+FFFD">> \o toString(Tail(data))
         ELSE IF Head(data) \in {"0xA9", "0xEF", "0xBF", "0xBD"}
              THEN <<"U+FFFD">> \o toString(Tail(data))
              ELSE <<Head(data)>> \o toString(Tail(data))

\* `${n}`: the decimal digits of n
RECURSIVE toDecimal(_)
toDecimal(n) ==
    IF n < 10 THEN <<DigitChars[n + 1]>>
    ELSE Append(toDecimal(n \div 10), DigitChars[(n % 10) + 1])

digitValue(ch) == CHOOSE d \in 0..9 : DigitChars[d + 1] = ch

\* parseInt(digits, 10) of a run of digits
RECURSIVE parseInt(_)
parseInt(digits) ==
    IF digits = << >> THEN 0
    ELSE 10 * parseInt(SubSeq(digits, 1, Len(digits) - 1))
            + digitValue(digits[Len(digits)])

\* the messages of the wire, as JSON.parse returns them: a kind ("r" a
\* successful response to request 1, "s" a stopped event of thread 1, "q" a
\* request) and the characters of a string field
Kinds == {"r", "s", "q"}
DataChars == {"a", "U+00E9", "U+FFFD"}

\* JSON.stringify(message)
stringify(message) == <<"{", message.kind>> \o message.data \o <<"}">>

\* JSON.parse(str): ok = FALSE stands for the SyntaxError it throws
parse(str) ==
    IF /\ Len(str) >= 3
       /\ str[1] = "{"
       /\ str[Len(str)] = "}"
       /\ str[2] \in Kinds
       /\ \A i \in 3..(Len(str) - 1) : str[i] \in DataChars
    THEN [ok |-> TRUE,
          message |-> [kind |-> str[2], data |-> SubSeq(str, 3, Len(str) - 1)]]
    ELSE [ok |-> FALSE, message |-> [kind |-> "", data |-> << >>]]

\* the frame sendRequest writes for a payload, lines 351-355
encode(payload) ==
    utf8(<<CL, SP>> \o toDecimal(byteLength(payload)) \o Separator \o payload)

\* this.buffer.indexOf('\r\n\r\n'), 0-based, -1 when absent
indexOf(buf) ==
    LET hits == {i \in 0..(Len(buf) - 4) : SubSeq(buf, i + 1, i + 4) = Separator}
    IN IF hits = {} THEN -1 ELSE CHOOSE i \in hits : \A j \in hits : i <= j

\* header.match(/Content-Length:\s*(\d+)/i): the digits captured by the
\* first match, << >> when there is none
contentLengthMatch(header) ==
    LET n == Len(header)
        isDigit(i) == i <= n /\ \E d \in 1..10 : DigitChars[d] = header[i]
        \* first position after the whitespace that follows position i
        afterSpace(i) ==
            CHOOSE j \in (i + 1)..(n + 1) :
                /\ \A k \in (i + 1)..(j - 1) : header[k] \in Whitespace
                /\ j = n + 1 \/ header[j] \notin Whitespace
        hits == {i \in 1..n : header[i] = CL /\ isDigit(afterSpace(i))}
    IN IF hits = {} THEN << >>
       ELSE LET i == CHOOSE i \in hits : \A j \in hits : i <= j
                from == afterSpace(i)
                to == CHOOSE j \in from..n :
                         /\ \A k \in from..j : isDigit(k)
                         /\ ~isDigit(j + 1)
            IN SubSeq(header, from, to)

\* a recovery that throws the whole buffer away
discardHeader_DropsAll(buf, headerEnd) == << >>

\* this.buffer.substring(headerEnd + 4), line 382
discardHeader(buf, headerEnd) == SubSeq(buf, headerEnd + 5, Len(buf))

\* a catch block that resets the buffer
onParseError_ResetsBuffer(rest) == << >>

\* the catch block of lines 401-403: it logs; the buffer keeps what
\* follows the frame
onParseError(rest) == rest

\* the loop of handleData, lines 374-404: buf is this.buffer, out the
\* messages handed to handleMessage so far, steps the iterations made
RECURSIVE decodeLoop(_, _, _)
decodeLoop(buf, out, steps) ==
    LET headerEnd == indexOf(buf) IN
    IF headerEnd = -1
    THEN [buffer |-> buf, out |-> out, steps |-> steps]
    ELSE LET digits == contentLengthMatch(SubSeq(buf, 1, headerEnd)) IN
         IF digits = << >>
         THEN decodeLoop(discardHeader(buf, headerEnd), out, steps + 1)
         ELSE LET messageStart == headerEnd + 4
                  messageEnd == messageStart + parseInt(digits)
              IN IF Len(buf) < messageEnd
                 THEN [buffer |-> buf, out |-> out, steps |-> steps]
                 ELSE LET messageStr == SubSeq(buf, messageStart + 1, messageEnd)
                          rest == SubSeq(buf, messageEnd + 1, Len(buf))
                          parsed == parse(messageStr)
                      IN IF parsed.ok
                         THEN decodeLoop(rest, Append(out, parsed.message),
                                         steps + 1)
                         ELSE decodeLoop(onParseError(rest), out, steps + 1)

\* the message of the protocol a parsed payload is
toMessage(parsed) ==
    CASE parsed.kind = "r" ->
           [type |-> "response", request_seq |-> 1, success |-> TRUE,
            body |-> NoBody, event |-> "", threadId |-> -1]
      [] parsed.kind = "s" ->
           [type |-> "event", request_seq |-> 0, success |-> FALSE,
            body |-> NoBody, event |-> "stopped", threadId |-> 1]
      [] OTHER ->
           [type |-> "request", request_seq |-> 0, success |-> FALSE,
            body |-> NoBody, event |-> "", threadId |-> -1]

\* what the debug server writes: a frame around a payload, encoded as
\* sendRequest encodes, or a header block without a parseable length
\* (followed by what was meant as its payload)
frame(payload) ==
    [kind |-> "frame", payload |-> payload, bytes |-> encode(payload)]
junk(header, payload) ==
    [kind |-> "junk", payload |-> payload,
     bytes |-> utf8(header \o Separator \o payload)]

CodecMessages ==
    {[kind |-> "r", data |-> << >>], [kind |-> "s", data |-> << >>],
     [kind |-> "q", data |-> <<"a">>], [kind |-> "q", data |-> <<"U+00E9">>]}
Requests == {m \in CodecMessages : m.kind = "q"}
\* a payload cut short, on which JSON.parse throws
BadPayloads == {<<"{", "r">>}
Segments ==
    {frame(stringify(m)) : m \in CodecMessages}
      \cup {frame(p) : p \in BadPayloads}
      \cup {junk(<<"x">>, << >>), junk(<<CL, SP, "x">>, <<"{", "r", "}">>)}

\* this.handleMessage(message) for each message of one chunk, in order
RECURSIVE handleAll(_, _, _)
handleAll(s, out, i) ==
    IF i > Len(out) THEN s
    ELSE handleAll(handleMessage(s, toMessage(out[i])), out, i + 1)

\* handleData, lines 370-405, in session state s with this.buffer = buf,
\* followed by the caller the chunk released
handleData(s, buf, data) ==
    LET d == decodeLoop(buf \o toString(data), << >>, 0)
        s1 == handleAll(s, d.out, 1)
    IN [s |-> resume(s, s1, NoBody), buffer |-> d.buffer, out |-> d.out,
        steps |-> d.steps]

(***************************************************************************)
(* Process output: lines, the two classifiers, the two buffers             *)
(* (src/unnamed/part_003)                                                  *)
(*                                                                         *)
(* A chunk of output is a sequence of tokens: the newline, the space, and  *)
(* pieces of text that the patterns of the program never cut (a word, a    *)
(* number, a punctuation mark, "res://").  num(n) is the decimal number n. *)
(* Timestamps (Date.now()) are left out.                                   *)
(***************************************************************************)
tok(c) == [c |-> c, n |-> 0]
num(n) == [c |-> "#", n |-> n]
Newline == tok("\n")
Blank == tok(" ")

\* character classes of the patterns
isSpace(t) == t.c = " "
isWord(t) == t.c \in {"#", "at", "_ready", "reload", "GDScript",
                      "ERROR", "WARNING"}
hasColon(t) == t.c \in {":", "::", "res://", "Parse Error:"}
\* text.toUpperCase().includes('WARNING') / includes('ERROR'), per token
hasWarning(line) == \E i \in 1..Len(line) : line[i].c = "WARNING"
hasError(line) ==
    \E i \in 1..Len(line) : line[i].c \in {"ERROR", "SCRIPT ERROR", "Parse Error:"}

\* line.trim()
trim(line) ==
    LET keep == {i \in 1..Len(line) : ~isSpace(line[i])} IN
    IF keep = {} THEN << >>
    ELSE SubSeq(line, CHOOSE i \in keep : \A j \in keep : i <= j,
                      CHOOSE i \in keep : \A j \in keep : j <= i)

\* the first position at or after i that holds no space (Len + 1 if none)
skipSpaces(line, i) ==
    CHOOSE j \in i..(Len(line) + 1) :
        /\ \A k \in i..(j - 1) : isSpace(line[k])
        /\ j = Len(line) + 1 \/ ~isSpace(line[j])

\* data.toString().split('\n'): the pieces of data[lo..hi], computed by
\* halves (the last piece of the left half continues in the first piece
\* of the right half)
RECURSIVE splitRange(_, _, _)
splitRange(data, lo, hi) ==
    IF lo > hi THEN << << >> >>
    ELSE IF lo = hi
    THEN (IF data[lo] = Newline THEN << << >>, << >> >> ELSE << <<data[lo]>> >>)
    ELSE LET mid == (lo + hi) \div 2
             left == splitRange(data, lo, mid)
             right == splitRange(data, mid + 1, hi)
         IN SubSeq(left, 1, Len(left) - 1)
              \o << left[Len(left)] \o right[1] >>
              \o Tail(right)

split(data) == splitRange(data, 1, Len(data))

\* ERROR_PATTERNS.errorStart on a trimmed line:
\* /^(ERROR|SCRIPT ERROR|WARNING):\s*(.+)$/
errorStart(line) ==
    /\ Len(line) >= 3
    /\ line[1].c \in {"ERROR", "SCRIPT ERROR", "WARNING"}
    /\ line[2].c = ":"
errorStartType(line) == IF line[1].c = "WARNING" THEN "warning" ELSE "error"
errorStartMessage(line) == SubSeq(line, skipSpaces(line, 3), Len(line))

\* what atLine and atLineAlt share: `at:` ... `(` ... `:<digits>)` at the
\* end of the line; open is the position of the first parenthesis
atOpen(line) ==
    LET opens == {i \in 1..Len(line) : line[i].c = "("} IN
    IF opens = {} THEN 0 ELSE CHOOSE i \in opens : \A j \in opens : i <= j
atShape(line) ==
    LET n == Len(line) IN
    /\ n >= 7
    /\ line[1].c = "at" /\ line[2].c = ":"
    /\ line[n].c = ")" /\ line[n - 1].c = "#" /\ line[n - 2].c = ":"
    /\ atOpen(line) >= 3 /\ atOpen(line) < n - 3
atPath(line) == SubSeq(line, atOpen(line) + 1, Len(line) - 3)
noColon(text) == \A i \in 1..Len(text) : ~hasColon(text[i])

\* ERROR_PATTERNS.atLine on a trimmed line:
\* /^\s*at:\s*(\w+)\s*\((?:res:\/\/)?([^:]+):(\d+)\)$/
\* << >> when it does not match, else <<function, script, line>>
atLine(line) ==
    IF ~atShape(line) THEN << >>
    ELSE LET i0 == skipSpaces(line, 3)
             wordEnd == CHOOSE j \in (i0 - 1)..Len(line) :
                           /\ \A k \in i0..j : isWord(line[k])
                           /\ j = Len(line) \/ ~isWord(line[j + 1])
             path == atPath(line)
             script == IF path[1].c = "res://" THEN Tail(path) ELSE path
         IN IF /\ wordEnd >= i0
               /\ skipSpaces(line, wordEnd + 1) = atOpen(line)
               /\ script # << >>
               /\ noColon(script)
            THEN <<SubSeq(line, i0, wordEnd), script,
                   <<line[Len(line) - 1]>> >>
            ELSE << >>

\* ERROR_PATTERNS.atLineAlt on a trimmed line:
\* /^\s*at:\s*([^\(]+)\s*\(([^:]+):(\d+)\)$/
atLineAlt(line) ==
    IF ~atShape(line) THEN << >>
    ELSE IF atOpen(line) >= 4 /\ noColon(atPath(line))
         THEN <<SubSeq(line, skipSpaces(line, 3), atOpen(line) - 1),
                atPath(line), <<line[Len(line) - 1]>> >>
         ELSE << >>

\* FIFO insertions that refuse the new entry when the buffer is full
pushError_KeepsOldest(errors, e) ==
    IF Len(errors) >= MAX_RUNTIME_ERRORS THEN errors ELSE Append(errors, e)

\* lines 338-341 and 363-366: shift when full, then push
pushError(errors, e) ==
    Append(IF Len(errors) >= MAX_RUNTIME_ERRORS THEN Tail(errors) ELSE errors, e)

\* an insertion that never evicts
pushDebug_NoEviction(messages, m) == Append(messages, m)

\* lines 1589-1598 and 1613-1617: push, then shift when over the limit
pushDebug(messages, m) ==
    LET pushed == Append(messages, m) IN
    IF Len(pushed) > MAX_DEBUG_MESSAGES THEN Tail(pushed) ELSE pushed

\* parseAndStoreError, lines 298-380: the new buffer, the new pending line
\* and the records stored by this call
parseAndStoreError(line, errors, pendingLine) ==
    LET trimmedLine == trim(line)
        none == [errors |-> errors, pending |-> pendingLine, stored |-> << >>]
    IN
    IF trimmedLine = << >> THEN none
    ELSE
      LET atMatch == IF atLine(trimmedLine) # << >> THEN atLine(trimmedLine)
                     ELSE atLineAlt(trimmedLine)
          located == pendingLine # << >> /\ atMatch # << >>
                       /\ errorStart(pendingLine)
      IN
      IF located
      THEN LET script == IF atMatch[2][1].c = "res://" THEN atMatch[2]
                         ELSE <<tok("res://")>> \o atMatch[2]
               runtimeError ==
                   [type |-> errorStartType(pendingLine),
                    message |-> errorStartMessage(pendingLine),
                    script |-> script,
                    line |-> atMatch[3][1].n,
                    function |-> trim(atMatch[1])]
           IN [errors |-> pushError(errors, runtimeError),
               pending |-> << >>, stored |-> <<runtimeError>>]
      ELSE
        LET unlocated == pendingLine # << >> /\ errorStart(pendingLine)
            runtimeError ==
                [type |-> errorStartType(pendingLine),
                 message |-> errorStartMessage(pendingLine),
                 script |-> << >>, line |-> 0, function |-> << >>]
        IN [errors |-> IF unlocated THEN pushError(errors, runtimeError)
                       ELSE errors,
            pending |-> IF errorStart(trimmedLine) THEN trimmedLine ELSE << >>,
            stored |-> IF unlocated THEN <<runtimeError>> ELSE << >>]

\* text.replace(/^WARNING:\s*/i, '') and /^(SCRIPT )?ERROR:\s*/i
stripPrefix(line, heads) ==
    IF Len(line) >= 2 /\ line[1].c \in heads /\ line[2].c = ":"
    THEN SubSeq(line, skipSpaces(line, 3), Len(line))
    ELSE line

\* trimmedLine.match(/(res:\/\/[^:\s]+):(\d+)/), else 'stderr'
sourceOf(line) ==
    LET hits == {i \in 1..(Len(line) - 3) :
                    /\ line[i].c = "res://"
                    /\ ~hasColon(line[i + 1]) /\ ~isSpace(line[i + 1])
                    /\ line[i + 2].c = ":" /\ line[i + 3].c = "#"}
    IN IF hits = {} THEN <<tok("stderr")>>
       ELSE LET i == CHOOSE i \in hits : \A j \in hits : i <= j
            IN SubSeq(line, i, i + 3)

\* /^(res:\/\/[^:]+):(\d+)\s*[-:]\s*(.+)$/ on a trimmed line
scriptMatch(line) ==
    /\ Len(line) >= 6
    /\ line[1].c = "res://" /\ ~hasColon(line[2])
    /\ line[3].c = ":" /\ line[4].c = "#"
    /\ skipSpaces(line, 5) < Len(line)
    /\ line[skipSpaces(line, 5)].c \in {":", "-"}

\* parseStderrLine, lines 388-434
parseStderrLine(line) ==
    LET trimmedLine == trim(line) IN
    IF hasWarning(trimmedLine)
    THEN [category |-> "warning",
          message |-> stripPrefix(trimmedLine, {"WARNING"}),
          source |-> sourceOf(trimmedLine)]
    ELSE IF hasError(trimmedLine)
    THEN [category |-> "error",
          message |-> stripPrefix(trimmedLine, {"ERROR", "SCRIPT ERROR"}),
          source |-> sourceOf(trimmedLine)]
    ELSE IF scriptMatch(trimmedLine)
    THEN [category |-> "error",
          message |-> SubSeq(trimmedLine,
                             skipSpaces(trimmedLine,
                                        skipSpaces(trimmedLine, 5) + 1),
                             Len(trimmedLine)),
          source |-> SubSeq(trimmedLine, 1, 4)]
    ELSE [category |-> "error", message |-> trimmedLine,
          source |-> <<tok("stderr")>>]

\* the state of the process and its buffers as one value
Tel == [activeProcess |-> activeProcess, debugMessages |-> debugMessages,
        detached |-> detached, apDebugMessages |-> apDebugMessages,
        runtimeErrors |-> runtimeErrors, pendingErrorLine |-> pendingErrorLine,
        emitted |-> emitted,
        partialLine |-> partialLine, chunks |-> chunks, runs |-> runs,
        debugLog |-> debugLog, debugCleared |-> debugCleared,
        errorLog |-> errorLog, errorBase |-> errorBase,
        stderrLines |-> stderrLines, stderrMessages |-> stderrMessages,
        startLines |-> startLines]

\* the process record and its buffers become those of t
Telemetry(t) ==
    /\ activeProcess' = t.activeProcess
    /\ debugMessages' = t.debugMessages
    /\ detached' = t.detached
    /\ apDebugMessages' = t.apDebugMessages
    /\ runtimeErrors' = t.runtimeErrors
    /\ pendingErrorLine' = t.pendingErrorLine
    /\ emitted' = t.emitted
    /\ partialLine' = t.partialLine
    /\ chunks' = t.chunks
    /\ runs' = t.runs
    /\ debugLog' = t.debugLog
    /\ debugCleared' = t.debugCleared
    /\ errorLog' = t.errorLog
    /\ errorBase' = t.errorBase
    /\ stderrLines' = t.stderrLines
    /\ stderrMessages' = t.stderrMessages
    /\ startLines' = t.startLines

\* a step of the server's process handling that leaves the client alone
BecomeTel(t) ==
    /\ Telemetry(t)
    /\ UNCHANGED <<sessionVars, codecVars, scriptVars, bridgeVars, serverVars>>

\* the body of lines.forEach in the stdout handler, lines 1584-1600
stdoutLine(t, line) ==
    IF trim(line) = << >> THEN t
    ELSE LET m == [category |-> "print", message |-> trim(line),
                   source |-> <<tok("stdout")>>]
         IN [t EXCEPT !.debugMessages = pushDebug(@, m),
                      !.debugLog = Append(@, m)]

\* the body of lines.forEach in the stderr handler, lines 1606-1619
stderrLine(t, line) ==
    IF trim(line) = << >> THEN t
    ELSE LET r == parseAndStoreError(line, t.runtimeErrors, t.pendingErrorLine)
             m == parseStderrLine(line)
         IN [t EXCEPT !.runtimeErrors = r.errors,
                      !.pendingErrorLine = r.pending,
                      !.errorLog = @ \o r.stored,
                      !.debugMessages = pushDebug(@, m),
                      !.debugLog = Append(@, m),
                      !.stderrMessages = @ + 1]

\* lines.forEach(...) over lines[lo..hi], in order: the first half, then
\* the second half from the state the first half left (reading a field of
\* that state makes the first half be computed before the second starts;
\* no line changes the count of chunks)
RECURSIVE stdoutEach(_, _, _, _)
stdoutEach(t, lines, lo, hi) ==
    IF lo > hi THEN t
    ELSE IF lo = hi THEN stdoutLine(t, lines[lo])
    ELSE LET mid == (lo + hi) \div 2
             half == stdoutEach(t, lines, lo, mid)
         IN IF half.chunks = t.chunks
            THEN stdoutEach(half, lines, mid + 1, hi)
            ELSE t

RECURSIVE stderrEach(_, _, _, _)
stderrEach(t, lines, lo, hi) ==
    IF lo > hi THEN t
    ELSE IF lo = hi THEN stderrLine(t, lines[lo])
    ELSE LET mid == (lo + hi) \div 2
             half == stderrEach(t, lines, lo, mid)
         IN IF half.chunks = t.chunks
            THEN stderrEach(half, lines, mid + 1, hi)
            ELSE t

\* activeProcess.debugMessages is the handlers' array until
\* get_debug_output has replaced it (line 1714)
visible(t) ==
    [t EXCEPT !.apDebugMessages = IF t.detached THEN @ ELSE t.debugMessages]

\* process.stdout.on('data'), lines 1581-1601
onStdout(t, data) ==
    LET lines == split(data) IN
    visible([stdoutEach(t, lines, 1, Len(lines)) EXCEPT !.chunks = @ + 1])

\* the complete lines of the stderr stream that a chunk ends
completed(t, data) ==
    LET pieces == split(t.partialLine \o data)
    IN SubSeq(pieces, 1, Len(pieces) - 1)

\* process.stderr.on('data'), lines 1603-1620
onStderr(t, data) ==
    LET lines == split(data)
        pieces == split(t.partialLine \o data)
        ended == completed(t, data)
        text == {i \in 1..Len(ended) : trim(ended[i]) # << >>}
        starts == {i \in text : errorStart(trim(ended[i]))}
    IN visible([stderrEach(t, lines, 1, Len(lines)) EXCEPT
                   !.chunks = @ + 1,
                   !.partialLine = pieces[Len(pieces)],
                   !.stderrLines = @ + Cardinality(text),
                   !.startLines = @ + Cardinality(starts)])

\* handleRunProject, lines 1558-1645, for a valid project: the running
\* process, if any, is killed and loses its record; new arrays and new
\* handlers are made for the new process
runProject(t) ==
    [t EXCEPT !.activeProcess = "running", !.debugMessages = << >>,
              !.detached = FALSE, !.apDebugMessages = << >>,
              !.runtimeErrors = << >>, !.pendingErrorLine = << >>,
              !.partialLine = << >>, !.runs = @ + 1,
              !.debugLog = << >>, !.debugCleared = FALSE,
              !.errorLog = << >>, !.errorBase = 0, !.stderrLines = 0,
              !.stderrMessages = 0, !.startLines = 0]

\* the 'exit' and 'error' handlers of the active process, lines 1622-1634
onExit(t) == [t EXCEPT !.activeProcess = "null"]

\* an exit handler that does not look at whose process has gone
onExitOf_Any(t, id) == [t EXCEPT !.activeProcess = "null"]

\* the 'exit' and 'error' handlers of the process spawned as number id,
\* lines 1622-1634: this.activeProcess && this.activeProcess.process ===
\* process (the record holds the process spawned last)
onExitOf(t, id) ==
    IF t.activeProcess # "null" /\ t.runs = id THEN onExit(t) ELSE t

\* handleStopProject, lines 1808-1823 (an error result when there is no
\* active process)
stopProject(t) ==
    IF t.activeProcess = "null" THEN t ELSE [t EXCEPT !.activeProcess = "null"]

\* a clear that empties both buffers
getDebugOutput_ClearsBoth(t, clearAfterRead) ==
    IF t.activeProcess = "null" THEN t
    ELSE [t EXCEPT !.apDebugMessages = IF clearAfterRead THEN << >> ELSE @,
                   !.runtimeErrors = IF clearAfterRead THEN << >> ELSE @,
                   !.detached = clearAfterRead \/ @,
                   !.debugCleared = clearAfterRead \/ @]

\* what handleGetDebugOutput does to the state, lines 1663-1733 (an error
\* result when there is no active process)
getDebugOutput(t, clearAfterRead) ==
    IF t.activeProcess = "null" THEN t
    ELSE [t EXCEPT !.apDebugMessages = IF clearAfterRead THEN << >> ELSE @,
                   !.detached = clearAfterRead \/ @,
                   !.debugCleared = clearAfterRead \/ @]

\* what handleGetRuntimeErrors does to the state, lines 1739-1803
getRuntimeErrors(t, clearAfterRead) ==
    IF t.activeProcess = "null" THEN t
    ELSE [t EXCEPT !.runtimeErrors = IF clearAfterRead THEN << >> ELSE @,
                   !.errorBase = IF clearAfterRead THEN Len(t.errorLog) ELSE @]

\* what the game writes.  A numbered line carries the number of lines
\* written before it, so that no two of them are equal.
errorLine == <<tok("ERROR"), tok(":"), Blank, tok("Parse Error:"), Blank,
               tok("unexpected token")>>
warningLine == <<tok("WARNING"), tok(":"), Blank, tok("unused variable")>>
\* `ERROR: warning unused variable`: an error whose text holds the word
\* warning (a token WARNING is a word that toUpperCase() makes WARNING)
errorNamingWarning ==
    <<tok("ERROR"), tok(":"), Blank, tok("WARNING"), Blank,
      tok("unused variable")>>
\* `   at: GDScript::reload (res://a.gd:4)`
atQualifiedRes ==
    <<Blank, Blank, Blank, tok("at"), tok(":"), Blank, tok("GDScript"),
      tok("::"), tok("reload"), Blank, tok("("), tok("res://"), tok("a.gd"),
      tok(":"), num(4), tok(")")>>
\* ` at: _ready (res://a.gd:4)`
atSimpleRes ==
    <<Blank, tok("at"), tok(":"), Blank, tok("_ready"), Blank, tok("("),
      tok("res://"), tok("a.gd"), tok(":"), num(4), tok(")")>>
\* `at: GDScript::reload (a.gd:4)`
atQualifiedRel ==
    <<tok("at"), tok(":"), Blank, tok("GDScript"), tok("::"), tok("reload"),
      Blank, tok("("), tok("a.gd"), tok(":"), num(4), tok(")")>>
\* `ERROR: <k>` followed by `at: _ready (a.gd:<k>)`
errorPair(k) ==
    <<tok("ERROR"), tok(":"), Blank, num(k), Newline,
      tok("at"), tok(":"), Blank, tok("_ready"), Blank, tok("("), tok("a.gd"),
      tok(":"), num(k), tok(")"), Newline>>

\* a chunk of n numbered stdout lines after k lines
stdoutBurst(k, n) ==
    [i \in 1..(2 * n) |-> IF i % 2 = 1 THEN num(k + ((i + 1) \div 2)) ELSE Newline]
\* a chunk of n numbered error/location pairs after k lines
stderrBurst(k, n) ==
    [i \in 1..(16 * n) |-> errorPair(k + 1 + ((i - 1) \div 16))[1 + ((i - 1) % 16)]]

\* the chunks of one data event after k numbered lines: a single line, a
\* line without its end, or, as the first output of the process (first =
\* TRUE), one burst that fills the debug-message buffer
StdoutChunks(k, first) ==
    {[data |-> stdoutBurst(k, 1), lines |-> 1]}
      \cup (IF first
            THEN {[data |-> stdoutBurst(k, MAX_DEBUG_MESSAGES),
                   lines |-> MAX_DEBUG_MESSAGES]}
            ELSE {})
StderrChunks(k, first) ==
    {[data |-> Append(l, Newline), lines |-> 0] :
        l \in {errorLine, warningLine, errorNamingWarning, atQualifiedRes,
               atSimpleRes, atQualifiedRel, <<Blank>>}}
      \cup {[data |-> <<tok("ERROR"), tok(":"), Blank>>, lines |-> 0]}
      \cup (IF first
            THEN {[data |-> stderrBurst(k, MAX_DEBUG_MESSAGES \div 2),
                   lines |-> MAX_DEBUG_MESSAGES \div 2]}
            ELSE {})

(***************************************************************************)
(* Expanding a value: expandVariableValue (src/unnamed/part_003)           *)
(***************************************************************************)
\* a Variable of a variables response
leaf == [name |-> "x", value |-> "1", variablesReference |-> 0]
object(ref) == [name |-> "node", value |-> "<Node#1>", variablesReference |-> ref]

\* a long list of children: the first and the eleventh have children of
\* their own, under the handle ref
many(ref) ==
    [i \in 1..ManyChildren |-> IF i \in {1, ChildLimit + 1} THEN object(ref) ELSE leaf]

\* what DAPClient.variables gives for a handle: a list of children, or a
\* rejection (failure response, timeout, connection lost)
Answers ==
    {[ok |-> FALSE, variables |-> << >>]}
      \cup {[ok |-> TRUE, variables |-> l] :
               l \in {<< >>, <<leaf>>, <<object(1)>>, <<object(2)>>,
                      <<leaf, object(1), object(2)>>, many(1), many(2)}}

\* the debug server: an answer for each of the two handles, which may name
\* each other or themselves
Heaps == [1..2 -> Answers]

\* a test that lets an expansion go one level deeper
atLimit_OneDeeper(variable, maxDepth, currentDepth) ==
    variable.variablesReference = 0 \/ currentDepth > maxDepth

\* variable.variablesReference === 0 || currentDepth >= maxDepth, line 3816
atLimit(variable, maxDepth, currentDepth) ==
    variable.variablesReference = 0 \/ currentDepth >= maxDepth

\* childValues.join(', ')
RECURSIVE join(_)
join(texts) ==
    IF texts = << >> THEN << >>
    ELSE IF Len(texts) = 1 THEN texts[1]
    ELSE texts[1] \o <<tok(", ")>> \o join(Tail(texts))

\* expandVariableValue, lines 3810-3846: the text returned and the
\* variables requests sent, in order
RECURSIVE expandVariableValue(_, _, _, _)
RECURSIVE expandChildren(_, _, _, _)
expandVariableValue(heap, variable, maxDepth, currentDepth) ==
    IF atLimit(variable, maxDepth, currentDepth)
    THEN [text |-> IF variable.variablesReference # 0 /\ currentDepth >= maxDepth
                   THEN <<tok(variable.value), tok(" [depth limit]")>>
                   ELSE <<tok(variable.value)>>,
          requests |-> << >>]
    ELSE
      LET answer == heap[variable.variablesReference]
          children == answer.variables
          request == <<[ref |-> variable.variablesReference, depth |-> currentDepth]>>
      IN
      IF ~answer.ok \/ Len(children) = 0
      THEN [text |-> <<tok(variable.value)>>, requests |-> request]
      ELSE
        LET shown == IF Len(children) > ChildLimit
                     THEN SubSeq(children, 1, ChildLimit) ELSE children
            inner == expandChildren(heap, shown, maxDepth, currentDepth + 1)
            more == IF Len(children) > ChildLimit
                    THEN <<<<tok("... and "), num(Len(children) - ChildLimit),
                             tok(" more")>>>>
                    ELSE << >>
        IN [text |-> <<tok("{ ")>> \o join(inner.childValues \o more) \o <<tok(" }")>>,
            requests |-> request \o inner.requests]

\* the loop of lines 3834-3837 over the children shown
expandChildren(heap, children, maxDepth, depth) ==
    IF children = << >> THEN [childValues |-> << >>, requests |-> << >>]
    ELSE LET child == Head(children)
             first == expandVariableValue(heap, child, maxDepth, depth)
             rest == expandChildren(heap, Tail(children), maxDepth, depth)
         IN [childValues |-> <<<<tok(child.name), tok(": ")>> \o first.text>>
                                 \o rest.childValues,
             requests |-> first.requests \o rest.requests]

(***************************************************************************)
(* The bridge plugin of the editor (src/unnamed/part_001)                  *)
(***************************************************************************)
\* text is a sequence of tokens: a command word (with its colon), an
\* argument, a separator
NL == "\n"
Colon == ":"

\* String.strip_edges(): leading and trailing whitespace removed
RECURSIVE strip_edges(_)
strip_edges(text) ==
    IF text = << >> THEN text
    ELSE IF Head(text) = NL THEN strip_edges(Tail(text))
    ELSE IF text[Len(text)] = NL THEN strip_edges(SubSeq(text, 1, Len(text) - 1))
    ELSE text

\* String.begins_with(word)
begins_with(text, word) == text # << >> /\ Head(text) = word

\* String.substr(n), n the length of the command word
substr(text) == Tail(text)

\* params.split(":")
RECURSIVE splitColon(_, _)
splitColon(text, part) ==
    IF text = << >> THEN <<part>>
    ELSE IF Head(text) = Colon THEN <<part>> \o splitColon(Tail(text), << >>)
    ELSE splitColon(Tail(text), Append(part, Head(text)))

\* scene_root.get_node_or_null(node_path): the scene holds one node, Player
get_node_or_null(node_path) == node_path = <<"Player">>

\* the node a path names: the root for an empty path or "."
hasTarget(node_path) ==
    node_path = << >> \/ node_path = <<".">> \/ get_node_or_null(node_path)

\* _get_node_signals, lines 148-179
get_node_signals(root, node_path) ==
    IF ~root THEN <<"ERROR:NO_SCENE_OPEN">>
    ELSE IF ~hasTarget(node_path) THEN <<"ERROR:NODE_NOT_FOUND:">> \o node_path
    ELSE <<"SIGNALS:", "{">> \o node_path \o <<"}">>

\* _get_signal_connections, lines 195-222
get_signal_connections(root, node_path, recursive, include_internal) ==
    IF ~root THEN <<"ERROR:NO_SCENE_OPEN">>
    ELSE IF ~hasTarget(node_path) THEN <<"ERROR:NODE_NOT_FOUND:">> \o node_path
    ELSE <<"CONNECTIONS:", "{">>
            \o (IF node_path # << >> THEN node_path ELSE <<".">>)
            \o <<IF recursive THEN "true" ELSE "false",
                 IF include_internal THEN "true" ELSE "false", "}">>

\* response = "ERROR:UNKNOWN_COMMAND:" + request
unknownCommand(request) == <<"ERROR:UNKNOWN_COMMAND:">> \o request

\* _handle_request, lines 100-145: the response and the scene played after
handle_request(request, playing, root) ==
    IF request = <<"play_main">>
    THEN [response |-> <<"OK:PLAYING_MAIN">>, playing |-> <<"res://main.tscn">>]
    ELSE IF begins_with(request, "play_scene:")
    THEN LET scene_path == strip_edges(substr(request))
         IN  [response |-> <<"OK:PLAYING:">> \o scene_path, playing |-> scene_path]
    ELSE IF request = <<"stop">>
    THEN [response |-> <<"OK:STOPPED">>, playing |-> << >>]
    ELSE IF request = <<"status">>
    THEN [response |-> IF playing # << >>
                       THEN <<"STATUS:PLAYING:">> \o playing
                       ELSE <<"STATUS:STOPPED">>,
          playing |-> playing]
    ELSE IF request = <<"ping">>
    THEN [response |-> <<"PONG">>, playing |-> playing]
    ELSE IF begins_with(request, "get_signals:")
    THEN [response |-> get_node_signals(root, strip_edges(substr(request))),
          playing |-> playing]
    ELSE IF begins_with(request, "get_signal_connections:")
    THEN LET parts == splitColon(strip_edges(substr(request)), << >>)
             node_path == IF Len(parts) > 0 THEN parts[1] ELSE << >>
             recursive == IF Len(parts) > 1 THEN parts[2] = <<"true">> ELSE TRUE
             include_internal == IF Len(parts) > 2 THEN parts[3] = <<"true">>
                                 ELSE FALSE
         IN  [response |-> get_signal_connections(root, node_path, recursive,
                                                  include_internal),
              playing |-> playing]
    ELSE [response |-> unknownCommand(request), playing |-> playing]

\* the commands a client writes
Commands ==
    {<<"ping">>, <<"status">>, <<"stop">>, <<"play_main">>,
     <<"play_scene:", "res://a.tscn">>,
     <<"get_signals:", "Player">>, <<"get_signals:", "Ghost">>,
     <<"get_signal_connections:", "Player", Colon, "false">>,
     <<"bogus">>}

(***************************************************************************)
(* Actions: one per callback of the event loop                             *)
(***************************************************************************)
\* the state after handleData has decoded message m in state s and the
\* caller it released has run
afterData(s, m) ==
    CHOOSE t \in {resume(s, s1, m.body) : s1 \in {handleMessage(s, m)}} : TRUE

\* the state after the request timer of call c has run in state s
afterTimer(s, c) ==
    CHOOSE t \in {resume(s, s1, NoBody) :
                     s1 \in {requestTimeout([s EXCEPT !.timers = @ \ {c}], c)}} : TRUE

\* calls still to be made by initialize() calls awaiting their first response
Reserved ==
    Cardinality({c \in 1..Len(calls) :
                    calls[c].origin = "initialize" /\ calls[c].outcome = "pending"})

CanCall(n) == Len(calls) + rejects + Reserved + n <= MaxCalls

\* connect() on a client that has no live socket (a fresh client, or one
\* whose previous socket has closed and whose connection timer is spent)
Connect ==
    /\ sockState \in {"none", "closed"}
    /\ ~connTimer
    /\ \E s0 \in {St} : \E s1 \in {connect(s0)} : Become(s1)

SocketConnect ==
    /\ sockState = "connecting"
    /\ \E s0 \in {St} : \E s1 \in {onConnect(s0)} : Become(s1)

SocketError ==
    /\ sockState \in {"connecting", "open"}
    /\ \E s0 \in {St} : \E s1 \in {onError(s0)} : Become(s1)

SocketClose ==
    /\ sockState \in {"open", "closing"}
    /\ \E s0 \in {St} : \E s1 \in {onClose(s0)} : Become(s1)

ConnectTimeout ==
    /\ connTimer
    /\ \E s0 \in {St} : \E s1 \in {connectTimeout(s0)} : Become(s1)

Disconnect ==
    /\ socket # 0
    /\ \E s0 \in {St} : \E s1 \in {disconnect(s0)} : Become(s1)

\* a data event whose chunk completes one frame holding message m
DataMsg(m) ==
    /\ sockState = "open"
    /\ \E s0 \in {St} : \E s1 \in {afterData(s0, m)} : Become(s1)

Data == \E m \in Messages : DataMsg(m)

TimerFires(c) ==
    /\ c \in timers
    /\ \E s0 \in {St} : \E s1 \in {afterTimer(s0, c)} : Become(s1)

RequestTimeout == \E c \in 1..Len(calls) : TimerFires(c)

Initialize ==
    /\ CanCall(2)
    /\ \E s0 \in {St} :
          \E s1 \in {sendRequest(s0, "initialize", "initialize", "")} : Become(s1)

SetBreakpoints ==
    \E p \in Paths :
        /\ CanCall(1)
        /\ \E s0 \in {St} :
              \E s1 \in {sendRequest(s0, "setBreakpoints", "setBreakpoints", p)} :
                 Become(s1)

\* a handler that asks for the stack trace whether paused or not
getCallStack_AlwaysTraces(s) ==
    IF ~s.connected
    THEN [s EXCEPT !.toolResult = [tool |-> "get_call_stack", kind |-> "error",
                                   paused |-> FALSE, stack |-> << >>]]
    ELSE sendRequest(s, "stackTrace", "get_call_stack", "")

\* handleGetCallStack, part_003 lines 3427-3486 (this.dapClient is the client)
getCallStack(s) ==
    IF ~s.connected
    THEN [s EXCEPT !.toolResult = [tool |-> "get_call_stack", kind |-> "error",
                                   paused |-> FALSE, stack |-> << >>]]
    ELSE IF ~s.paused
    THEN [s EXCEPT !.toolResult = [tool |-> "get_call_stack", kind |-> "ok",
                                   paused |-> FALSE, stack |-> << >>]]
    ELSE LET s1 == sendRequest(s, "stackTrace", "get_call_stack", "") IN
         IF s1.rejects > s.rejects
         THEN [s1 EXCEPT !.toolResult =
                  [tool |-> "get_call_stack", kind |-> "error",
                   paused |-> FALSE, stack |-> << >>]]
         ELSE s1

GetCallStack ==
    /\ CanCall(1)
    /\ \E s0 \in {St} : \E s1 \in {getCallStack(s0)} : Become(s1)

\* the client driven through its own interface
Next ==
    \/ Connect
    \/ SocketConnect
    \/ SocketError
    \/ SocketClose
    \/ ConnectTimeout
    \/ Disconnect
    \/ Data
    \/ RequestTimeout
    \/ Initialize
    \/ SetBreakpoints

Spec == Init /\ [][Next]_vars

\* the response m settles a pending setBreakpoints call of s with success
\* and carries a body
storesBreakpoints(s, m) ==
    /\ m.type = "response" /\ m.success /\ m.body.kind # "none"
    /\ m.request_seq \in DOMAIN s.pendingRequests
    /\ s.calls[s.pendingRequests[m.request_seq].call].origin = "setBreakpoints"

\* a data event carrying a response, with the record of what was received
DataBreakpoints ==
    \E m \in Responses :
        /\ sockState = "open"
        /\ \E s0 \in {St} : \E s1 \in {afterData(s0, m)} : Session(s1)
        /\ received' =
              IF storesBreakpoints(St, m)
              THEN Append(received,
                          [path |-> calls[pendingRequests[m.request_seq].call].arg,
                           bps |-> listOf(m.body, "bps"),
                           seq |-> m.request_seq])
              ELSE received
        /\ UNCHANGED <<codecVars, telemetryVars, scriptVars, bridgeVars,
                       oldProcess, oldClients, expansion>>

\* setBreakpoints calls, possibly concurrent, on one connection after another
NextBreakpoints ==
    \/ Connect
    \/ SocketConnect
    \/ SocketClose
    \/ Disconnect
    \/ SetBreakpoints
    \/ DataBreakpoints
    \/ RequestTimeout

SpecBreakpoints == Init /\ [][NextBreakpoints]_vars

\* a replacement that leaves the old client as it is
replaceClient_KeepsOld(s) == s

\* if (this.dapClient) this.dapClient.disconnect(), part_003 lines
\* 3284-3286, with disconnect(), dap-client.ts lines 95-103
replaceClient(s) ==
    IF s.socket # 0 THEN disconnect(s)
    ELSE [s EXCEPT !.connected = FALSE, !.paused = FALSE]

\* DAPClient.continue, lines 299-301: a request whose caller only awaits it
Continue ==
    /\ CanCall(1)
    /\ \E s0 \in {St} :
          \E s1 \in {sendRequest(s0, "continue", "continue", "")} : Become(s1)

\* responses without a body, and the events that change the session
LiveMessages ==
    {m \in Responses : m.body = NoBody}
        \cup {m \in Events : m.event \in {"stopped", "continued"} /\ m.threadId = -1}

DataLive == \E m \in LiveMessages : DataMsg(m)

\* the client issuing plain requests, for the properties of progress
NextLive ==
    \/ Connect
    \/ SocketConnect
    \/ SocketError
    \/ SocketClose
    \/ ConnectTimeout
    \/ Disconnect
    \/ DataLive
    \/ RequestTimeout
    \/ Continue

\* every armed request timer fires (setTimeout is never cleared)
Fairness == \A c \in 1..MaxCalls : WF_vars(TimerFires(c))

LiveSpec == Init /\ [][NextLive]_vars /\ Fairness

(***************************************************************************)
(* connect_debugger replacing the client (part_003, handleConnectDebugger) *)
(***************************************************************************)
\* the calls of client s that are awaiting their response
inFlight(s) == {c \in 1..Len(s.calls) : s.calls[c].outcome = "pending"}

\* handleConnectDebugger from `// 3. Connect DAP client` to its next await,
\* lines 3283-3289: the client there is, if any, is disconnected, a new one
\* takes its place and starts to connect.  The step can be taken while an
\* earlier call is awaiting connect() or initialize().
ConnectDebugger ==
    /\ sockState = "none" \/ Len(oldClients) < MaxReplacements
    /\ oldClients' =
          IF sockState = "none" THEN oldClients
          ELSE Append(oldClients, [client |-> replaceClient(St),
                                   inFlight |-> inFlight(St)])
    /\ \E s1 \in {connect(NewClient)} : Session(s1)
    /\ UNCHANGED <<codecVars, telemetryVars, scriptVars, bridgeVars, received,
                   oldProcess, expansion>>

\* a replaced client becomes s
OldClientBecomes(i, s) ==
    /\ oldClients' = [oldClients EXCEPT ![i].client = s]
    /\ UNCHANGED <<sessionVars, codecVars, telemetryVars, scriptVars,
                   bridgeVars, received, oldProcess, expansion>>

\* the request timer of call c of a replaced client fires
OldTimerFires(i, c) ==
    /\ i \in 1..Len(oldClients)
    /\ c \in oldClients[i].client.timers
    /\ \E s1 \in {afterTimer(oldClients[i].client, c)} : OldClientBecomes(i, s1)

OldRequestTimeout ==
    \E i \in 1..MaxReplacements, c \in 1..MaxCalls : OldTimerFires(i, c)

\* the 'close' event of the socket a replaced client destroyed
OldSocketClose ==
    \E i \in 1..Len(oldClients) :
        /\ oldClients[i].client.sockState = "closing"
        /\ \E s1 \in {onClose(oldClients[i].client)} : OldClientBecomes(i, s1)

\* the connection timer of a replaced client fires
OldConnectTimeout ==
    \E i \in 1..Len(oldClients) :
        /\ oldClients[i].client.connTimer
        /\ \E s1 \in {connectTimeout(oldClients[i].client)} : OldClientBecomes(i, s1)

\* a response without a body arrives on the connection of the client
DataResponse ==
    \E m \in {r \in Responses : r.body = NoBody} : DataMsg(m)

\* `await this.dapClient.initialize()` of handleConnectDebugger, part_003
\* line 3290: called once on a client, when its connect() has resolved
InitializeConnected ==
    /\ connected /\ calls = << >> /\ rejects = 0
    /\ Initialize

NextReconnect ==
    \/ ConnectDebugger
    \/ SocketConnect
    \/ SocketClose
    \/ InitializeConnected
    \/ DataResponse
    \/ RequestTimeout
    \/ OldRequestTimeout
    \/ OldSocketClose
    \/ OldConnectTimeout

\* a timer that was set does fire
FairnessOld == WF_vars(OldRequestTimeout)

SpecReconnect == Init /\ [][NextReconnect]_vars /\ FairnessOld


\* the client driven by the server's tool handlers, which never set
\* breakpoints
NextServer ==
    \/ Connect
    \/ SocketConnect
    \/ SocketError
    \/ SocketClose
    \/ ConnectTimeout
    \/ Disconnect
    \/ Data
    \/ RequestTimeout
    \/ Initialize
    \/ GetCallStack

SpecServer == Init /\ [][NextServer]_vars

(***************************************************************************)
(* One get_local_variables call on a client that is connected or not,      *)
(* paused or not                                                           *)
(***************************************************************************)
\* the messages of the debug server while the tool runs: an answer to any
\* request sent so far or to the next one, and the events that pause and
\* resume the game
LocalsMessages ==
    [type : {"response"}, request_seq : 1..sequenceNumber,
     success : BOOLEAN, body : LocalsBodies, event : {""}, threadId : {-1}]
      \cup [type : {"event"}, request_seq : {0}, success : {FALSE},
            body : {NoBody}, event : {"stopped", "continued"}, threadId : {1}]

DataLocals ==
    /\ sockState = "open"
    /\ \E m \in LocalsMessages :
          \E s0 \in {St} : \E s1 \in {afterData(s0, m)} :
             Become([s1 EXCEPT
                        !.localsCall.stopped =
                            @ \/ (m.event = "stopped" /\ s0.localsCall.phase # "idle"),
                        !.localsCall.resumed =
                            @ \/ (/\ m.event \in {"stopped", "continued"}
                                  /\ s0.localsCall.phase = "evaluate"
                                  /\ s0.localsCall.next < Len(s0.localsCall.names))])

GetLocalVariables ==
    /\ localsCall.phase = "idle"
    /\ ~localsCall.called
    /\ \E stackFrame \in 0..MaxStackFrame, maxDepth \in {0, 2} :
          \E s0 \in {St} :
             \E s1 \in {getLocalVariables(s0, stackFrame, maxDepth)} : Become(s1)

\* the timer of a request that has not been answered fires
PendingTimeout ==
    \E c \in 1..Len(calls) : calls[c].outcome = "pending" /\ TimerFires(c)

NextLocals ==
    \/ Connect
    \/ SocketConnect
    \/ SocketClose
    \/ DataLocals
    \/ PendingTimeout
    \/ GetLocalVariables

SpecLocals == Init /\ [][NextLocals]_vars

(***************************************************************************)
(* The codec on a connected client: the debug server writes segments, the  *)
(* transport delivers the bytes in chunks of any size                      *)
(***************************************************************************)
PeerWrites(seg) ==
    /\ sockState = "open"
    /\ Len(sent) < MaxFrames
    /\ stream' = stream \o seg.bytes
    /\ sent' = Append(sent, seg)
    /\ UNCHANGED <<sessionVars, buffer, dispatched, telemetryVars, scriptVars,
                   bridgeVars, serverVars>>

PeerWrite == \E seg \in Segments : PeerWrites(seg)

\* a data event carrying the first n bytes in flight
DataChunk(n) ==
    /\ sockState = "open"
    /\ n \in 1..Len(stream)
    /\ \E s0 \in {St} :
          \E r \in {handleData(s0, buffer, SubSeq(stream, 1, n))} :
             /\ Session(r.s)
             /\ buffer' = r.buffer
             /\ dispatched' = dispatched \o r.out
    /\ stream' = SubSeq(stream, n + 1, Len(stream))
    /\ UNCHANGED <<sent, telemetryVars, scriptVars, bridgeVars, serverVars>>

DataChunks == \E n \in 1..Len(stream) : DataChunk(n)

NextCodec ==
    \/ Connect
    \/ SocketConnect
    \/ Initialize
    \/ PeerWrite
    \/ DataChunks

SpecCodec == Init /\ [][NextCodec]_vars

(***************************************************************************)
(* The game process: run_project, its output, the tools that read it       *)
(***************************************************************************)
RunProject ==
    /\ runs < MaxRuns
    /\ \E t0 \in {Tel} : \E t1 \in {runProject(t0)} : BecomeTel(t1)

StdoutData ==
    /\ activeProcess = "running"
    /\ chunks < MaxChunks
    /\ \E c \in StdoutChunks(emitted, chunks = 0) :
          \E t0 \in {Tel} :
             \E t1 \in {onStdout([t0 EXCEPT !.emitted = @ + c.lines], c.data)} :
                BecomeTel(t1)

StderrData ==
    /\ activeProcess = "running"
    /\ chunks < MaxChunks
    /\ \E c \in StderrChunks(emitted, chunks = 0) :
          \E t0 \in {Tel} :
             \E t1 \in {onStderr([t0 EXCEPT !.emitted = @ + c.lines], c.data)} :
                BecomeTel(t1)

ProcessExit ==
    /\ activeProcess = "running"
    /\ \E t0 \in {Tel} : \E t1 \in {onExit(t0)} : BecomeTel(t1)

StopProject ==
    \E t0 \in {Tel} : \E t1 \in {stopProject(t0)} : BecomeTel(t1)

GetDebugOutput ==
    \E clearAfterRead \in BOOLEAN :
       \E t0 \in {Tel} : \E t1 \in {getDebugOutput(t0, clearAfterRead)} :
          BecomeTel(t1)

GetRuntimeErrors ==
    \E clearAfterRead \in BOOLEAN :
       \E t0 \in {Tel} : \E t1 \in {getRuntimeErrors(t0, clearAfterRead)} :
          BecomeTel(t1)

NextTelemetry ==
    \/ RunProject
    \/ StdoutData
    \/ StderrData
    \/ ProcessExit
    \/ StopProject
    \/ GetDebugOutput
    \/ GetRuntimeErrors

SpecTelemetry == Init /\ [][NextTelemetry]_vars

\* run_project while a process runs, lines 1558-1636: the process is killed
\* and keeps its handlers and their arrays; the record is the new process
ReplaceProject ==
    /\ activeProcess = "running"
    /\ oldProcess = << >>
    /\ \E t0 \in {Tel} : \E t1 \in {runProject(t0)} : Telemetry(t1)
    /\ oldProcess' = <<[alive |-> TRUE, id |-> runs, t |-> Tel]>>
    /\ UNCHANGED <<sessionVars, codecVars, scriptVars, bridgeVars, received,
                   oldClients, expansion>>

\* the handlers of the replaced process write what they captured
OldBecomes(t) ==
    /\ oldProcess' = <<[oldProcess[1] EXCEPT !.t = t]>>
    /\ UNCHANGED <<sessionVars, codecVars, telemetryVars, scriptVars,
                   bridgeVars, received, oldClients, expansion>>

\* output the replaced process had written, or writes before it dies
OldStdoutData ==
    /\ oldProcess # << >> /\ oldProcess[1].alive
    /\ oldProcess[1].t.chunks < MaxChunks
    /\ \E t0 \in {oldProcess[1].t} :
          \E c \in StdoutChunks(t0.emitted, FALSE) :
             \E t1 \in {onStdout([t0 EXCEPT !.emitted = @ + c.lines], c.data)} :
                OldBecomes(t1)

\* an error line and its location line
OldStderrChunks ==
    {[data |-> Append(l, Newline), lines |-> 0] : l \in {errorLine, atSimpleRes}}

OldStderrData ==
    /\ oldProcess # << >> /\ oldProcess[1].alive
    /\ oldProcess[1].t.chunks < MaxChunks
    /\ \E t0 \in {oldProcess[1].t} :
          \E c \in OldStderrChunks :
             \E t1 \in {onStderr([t0 EXCEPT !.emitted = @ + c.lines], c.data)} :
                OldBecomes(t1)

\* the 'exit' event of the replaced process
OldExit ==
    /\ oldProcess # << >> /\ oldProcess[1].alive
    /\ \E t0 \in {Tel} : \E t1 \in {onExitOf(t0, oldProcess[1].id)} : Telemetry(t1)
    /\ oldProcess' = <<[oldProcess[1] EXCEPT !.alive = FALSE]>>
    /\ UNCHANGED <<sessionVars, codecVars, scriptVars, bridgeVars, received,
                   oldClients, expansion>>

\* the 'exit' event of the process of the record
ActiveExit ==
    /\ activeProcess = "running"
    /\ \E t0 \in {Tel} : \E t1 \in {onExitOf(t0, t0.runs)} : BecomeTel(t1)

NextReplace ==
    \/ RunProject
    \/ ReplaceProject
    \/ StdoutData
    \/ ActiveExit
    \/ OldStdoutData
    \/ OldStderrData
    \/ OldExit

SpecReplace == Init /\ [][NextReplace]_vars

(***************************************************************************)
(* One expansion against a debug server whose handles may form a cycle     *)
(***************************************************************************)
InitExpand ==
    /\ InitSession /\ InitCodec /\ InitTelemetry /\ InitScript /\ InitBridge
    /\ received = << >>
    /\ oldProcess = << >>
    /\ oldClients = << >>
    /\ \E heap \in Heaps, variable \in {leaf, object(1), object(2)},
          maxDepth \in 0..MaxDepth :
          expansion = [NoExpansion EXCEPT !.heap = heap, !.variable = variable,
                                          !.maxDepth = maxDepth]

Expand ==
    /\ ~expansion.done
    /\ LET r == expandVariableValue(expansion.heap, expansion.variable,
                                    expansion.maxDepth, 0)
       IN expansion' = [expansion EXCEPT !.done = TRUE, !.text = r.text,
                                         !.requests = r.requests]
    /\ UNCHANGED <<sessionVars, codecVars, telemetryVars, scriptVars,
                   bridgeVars, received, oldProcess, oldClients>>

NextExpand == Expand

SpecExpand == InitExpand /\ [][NextExpand]_vars

(***************************************************************************)
(* Reading a script and asking for the variables in scope                  *)
(***************************************************************************)
InitScripts ==
    /\ InitSession /\ InitCodec /\ InitTelemetry /\ InitBridge /\ InitServer
    /\ content \in Contents
    /\ scriptInfo = NoScriptInfo
    /\ queryLine = 0
    /\ variables = << >>

ParseGDScript ==
    /\ content # << >>
    /\ ~scriptInfo.parsed
    /\ scriptInfo' = parseGDScriptContent(content)
    /\ UNCHANGED <<content, queryLine, variables>>
    /\ UNCHANGED <<sessionVars, codecVars, telemetryVars, bridgeVars, serverVars>>

GetVariablesAtLine ==
    /\ scriptInfo.parsed
    /\ \E line \in 1..(Len(content) + 1) :
          /\ queryLine' = line
          /\ variables' = getVariablesAtLine(scriptInfo, line)
    /\ UNCHANGED <<content, scriptInfo>>
    /\ UNCHANGED <<sessionVars, codecVars, telemetryVars, bridgeVars, serverVars>>

NextScript ==
    \/ ParseGDScript
    \/ GetVariablesAtLine

SpecScript == InitScripts /\ [][NextScript]_vars

(***************************************************************************)
(* The bridge: a client writes commands, the editor calls _process on      *)
(* every frame                                                             *)
(***************************************************************************)
\* a client connects to the port of the plugin
BridgeConnect ==
    /\ connection = "none"
    /\ connection' = "available"
    /\ UNCHANGED <<inbox, playing_scene, scene_root, responses, written,
                   unread, reads>>
    /\ UNCHANGED <<sessionVars, codecVars, telemetryVars, scriptVars, serverVars>>

\* the client writes a command, as a line or bare (sendBridgeCommand writes
\* the command alone, part_003 line 3196)
BridgeWrite ==
    /\ connection \in {"available", "active"}
    /\ Len(written) < MaxCommands
    /\ \E command \in Commands, end \in {<< >>, <<NL>>} :
          /\ inbox' = inbox \o command \o end
          /\ written' = Append(written, command)
    /\ unread' = unread + 1
    /\ UNCHANGED <<connection, playing_scene, scene_root, responses, reads>>
    /\ UNCHANGED <<sessionVars, codecVars, telemetryVars, scriptVars, serverVars>>

\* the client closes the connection once it has nothing in flight
BridgeClose ==
    /\ connection = "active"
    /\ inbox = << >>
    /\ connection' = "closed"
    /\ UNCHANGED <<inbox, playing_scene, scene_root, responses, written,
                   unread, reads>>
    /\ UNCHANGED <<sessionVars, codecVars, telemetryVars, scriptVars, serverVars>>

\* the user closes or opens the scene edited
EditScene ==
    /\ scene_root' = ~scene_root
    /\ UNCHANGED <<connection, inbox, playing_scene, responses, written,
                   unread, reads>>
    /\ UNCHANGED <<sessionVars, codecVars, telemetryVars, scriptVars, serverVars>>

\* _process, part_001 lines 63-97
Process ==
    /\ connection \in {"available", "active", "closed"}
    /\ LET taken == IF connection = "available" THEN "active" ELSE connection
       IN  /\ connection' = IF taken = "closed" THEN "removed" ELSE taken
           /\ IF taken = "active" /\ inbox # << >>
              THEN \E r \in {handle_request(strip_edges(inbox), playing_scene,
                                            scene_root)} :
                      /\ responses' = Append(responses, r.response)
                      /\ playing_scene' = r.playing
                      /\ inbox' = << >>
                      /\ reads' = Append(reads, unread)
                      /\ unread' = 0
              ELSE UNCHANGED <<inbox, playing_scene, responses, unread, reads>>
    /\ UNCHANGED <<scene_root, written>>
    /\ UNCHANGED <<sessionVars, codecVars, telemetryVars, scriptVars, serverVars>>

NextBridge ==
    \/ BridgeConnect
    \/ BridgeWrite
    \/ BridgeClose
    \/ EditScene
    \/ Process

SpecBridge == Init /\ [][NextBridge]_vars

(***************************************************************************)
(* Request correlation                                                     *)
(***************************************************************************)
Issued == 1..Len(calls)

\* C1: in every reachable state with an open connection, handling a
\* response with request_seq = k settles exactly the pending request whose
\* sequence number is k (resolved on success, rejected otherwise) and
\* leaves every other request and every other pending entry as it was; a
\* response that matches no pending entry changes no state.
C1_ResponseSettlesItsRequest ==
    sockState = "open" =>
      \A s \in {St} : \A m \in Responses : \A t \in {afterData(s, m)} :
         IF m.request_seq \in DOMAIN s.pendingRequests
         THEN LET c == s.pendingRequests[m.request_seq].call IN
              /\ s.calls[c].seq = m.request_seq
              /\ s.calls[c].outcome = "pending"
              /\ t.calls[c].outcome = IF m.success THEN "resolved" ELSE "failed"
              /\ t.calls[c].settles = 1
              /\ m.request_seq \notin DOMAIN t.pendingRequests
              /\ \A d \in Issued \ {c} : t.calls[d] = s.calls[d]
              /\ \A k \in DOMAIN s.pendingRequests \ {m.request_seq} :
                    /\ k \in DOMAIN t.pendingRequests
                    /\ t.pendingRequests[k] = s.pendingRequests[k]
         ELSE t = s

\* two requests are outstanding and the later one was answered first
C1_Witness ==
    \E c, d \in Issued :
        /\ c < d
        /\ calls[c].outcome = "pending"
        /\ calls[c].seq \in DOMAIN pendingRequests
        /\ calls[d].outcome = "resolved"

\* call c was issued and its promise is not settled yet
InFlight(c) == c <= Len(calls) /\ calls[c].outcome = "pending"

\* C2: every request issued through sendRequest is eventually resolved or
\* rejected, whatever happens to the connection meanwhile, given that armed
\* timers fire (a call made while not connected is rejected in the call).
C2_EveryRequestSettles ==
    \A c \in 1..MaxCalls : InFlight(c) ~> ~InFlight(c)

\* a request was rejected by its timer after disconnect() was called
C2_Witness ==
    \E c \in Issued : calls[c].outcome = "timeout" /\ sinceDisconnect

\* C3: sequence numbers are strictly increasing in issue order, none is
\* assigned twice, every one is below the counter, and the pending table
\* holds one entry per pending request, under that request's number.
C3_SequenceNumbersIncrease ==
    /\ \A c, d \in Issued : c < d => calls[c].seq < calls[d].seq
    /\ \A c \in Issued : 1 <= calls[c].seq /\ calls[c].seq < sequenceNumber
    /\ \A k \in DOMAIN pendingRequests :
          /\ pendingRequests[k].call \in Issued
          /\ calls[pendingRequests[k].call].seq = k
    /\ \A c \in Issued :
          calls[c].outcome = "pending" =>
              /\ calls[c].seq \in DOMAIN pendingRequests
              /\ pendingRequests[calls[c].seq].call = c

\* two requests are pending at once
C3_Witness ==
    \E c, d \in Issued :
        c # d /\ calls[c].outcome = "pending" /\ calls[d].outcome = "pending"

\* C4: in every reachable state, the timer of a pending request rejects it
\* with a timeout and removes its entry; a response for the sequence number
\* of a timed-out request changes nothing; a timer that fires after its
\* request was settled changes nothing but the timer; no request is
\* settled twice.
C4_TimeoutThenLateResponse ==
    \A s \in {St} :
      /\ \A c \in Issued : s.calls[c].settles <= 1
      /\ \A c \in timers : \A t \in {afterTimer(s, c)} :
            IF s.calls[c].outcome = "pending"
            THEN /\ t.calls[c].outcome = "timeout"
                 /\ t.calls[c].settles = 1
                 /\ s.calls[c].seq \notin DOMAIN t.pendingRequests
            ELSE t = [s EXCEPT !.timers = @ \ {c}]
      /\ sockState = "open" =>
            \A m \in Responses : \A c \in Issued :
               (s.calls[c].seq = m.request_seq /\ s.calls[c].outcome = "timeout")
               => afterData(s, m) = s

\* on an open connection one request has timed out (a late response can
\* still arrive) and the timer of another fired after its response
C4_Witness ==
    /\ sockState = "open"
    /\ \E c, d \in Issued :
          /\ calls[c].outcome = "timeout"
          /\ calls[d].outcome = "resolved"
          /\ d \notin timers

\* C5: in every reachable state, the timer of one request leaves every
\* other request as it was: its record, its pending entry, its armed timer.
C5_TimeoutIsLocal ==
    \A s \in {St} : \A c \in timers : \A t \in {afterTimer(s, c)} :
       \A d \in Issued \ {c} :
          /\ t.calls[d] = s.calls[d]
          /\ d \in s.timers => d \in t.timers
          /\ s.calls[d].seq \in DOMAIN s.pendingRequests =>
                /\ s.calls[d].seq \in DOMAIN t.pendingRequests
                /\ t.pendingRequests[s.calls[d].seq]
                      = s.pendingRequests[s.calls[d].seq]

\* one request has timed out while another is still in flight
C5_Witness ==
    \E c, d \in Issued :
        /\ calls[c].outcome = "timeout"
        /\ calls[d].outcome = "pending"
        /\ d \in timers
        /\ calls[d].seq \in DOMAIN pendingRequests

(***************************************************************************)
(* Session state                                                           *)
(***************************************************************************)
Terminated == \E m \in Events : m.event = "terminated" /\ DataMsg(m)

\* C6 as stated: paused exactly when the last processed event among
\* stopped, continued, terminated and transport close was a stopped event.
C6_AsStated == paused <=> (lastEvent = "stopped")

\* C6: paused exactly when the last among the processed stopped, continued
\* and terminated events, the transport close and the disconnect() calls
\* was a stopped event.
C6_PausedIffLastWasStop ==
    paused <=> (lastEvent = "stopped" /\ ~sinceDisconnect)

\* disconnect() was called on a paused session and the close event of the
\* destroyed socket has not been processed yet
C6_Witness ==
    lastEvent = "stopped" /\ sinceDisconnect /\ ~paused /\ sockState = "closing"

\* C7: a continued event processed right after a stopped event leaves the
\* session connected and not paused, and get_call_stack on a connected
\* session that is not paused answers {paused: false, stack: []} without
\* issuing a request.
C7_RunningCallStack ==
    [][/\ \A m \in Events :
             (m.event = "continued" /\ lastEvent = "stopped" /\ paused /\ DataMsg(m))
             => (~paused' /\ connected')
       /\ (GetCallStack /\ connected /\ ~paused) =>
             /\ toolResult' = [tool |-> "get_call_stack", kind |-> "ok",
                               paused |-> FALSE, stack |-> << >>]
             /\ UNCHANGED <<sequenceNumber, pendingRequests, calls, timers,
                            rejects>>]_vars

\* get_call_stack has answered "not paused" after stopped, continued, on a
\* client that never issued a request
C7_Witness ==
    /\ toolResult = [tool |-> "get_call_stack", kind |-> "ok",
                     paused |-> FALSE, stack |-> << >>]
    /\ lastEvent = "continued"
    /\ connected /\ ~paused
    /\ sequenceNumber = 1 /\ DOMAIN pendingRequests = {} /\ calls = << >>

\* C8 as stated: after a terminated event or a transport close the session
\* is disconnected and not paused, the thread id is back to its initial
\* value and the capabilities are null.
C8_AsStated ==
    [][(Terminated \/ SocketClose) =>
          /\ ~connected' /\ ~paused'
          /\ currentThreadId' = 1
          /\ capabilities' = NoBody]_vars

\* C8: a terminated event clears paused and nothing else (the session stays
\* connected); a transport close leaves the session not connected, not
\* paused and without socket; neither changes the current thread id or the
\* capabilities.
C8_TerminatedAndClose ==
    [][/\ Terminated =>
             /\ ~paused'
             /\ UNCHANGED <<connected, socket, sockState, currentThreadId,
                            capabilities>>
       /\ SocketClose =>
             /\ ~connected' /\ ~paused' /\ socket' = 0
             /\ UNCHANGED <<currentThreadId, capabilities>>]_vars

\* a terminated event was processed on a session that had captured
\* capabilities and a thread id: it is still connected and keeps both
C8_Witness ==
    /\ lastEvent = "terminated"
    /\ connected /\ ~paused
    /\ currentThreadId = 2
    /\ capabilities # NoBody

(***************************************************************************)
(* Breakpoint registry                                                     *)
(***************************************************************************)
\* the entries getBreakpoints reports for one script
reportedFor(reg, script) ==
    SelectSeq(getBreakpoints(reg), LAMBDA r : r.script = script)

\* C9: a terminated event, a transport close, a socket error and
\* disconnect() leave the registry, and what getBreakpoints returns, as
\* they were.
C9_RegistrySurvives ==
    [][(Terminated \/ SocketClose \/ SocketError \/ Disconnect) =>
          /\ breakpoints' = breakpoints
          /\ getBreakpoints(breakpoints') = getBreakpoints(breakpoints)]_vars

\* the registry holds breakpoints after disconnect() and the close event
C9_Witness ==
    /\ Len(getBreakpoints(breakpoints)) > 0
    /\ sockState = "closed"
    /\ ~connected

\* C10: in every reachable state, when a response to a pending
\* setBreakpoints(p, lines) succeeds and carries a body, the registry then
\* holds one entry for p, equal to the breakpoint list of that response
\* (empty when the body has none), the entries of the other paths are
\* unchanged, and getBreakpoints reports for p the lines of that list only.
C10_RegistryReplaced ==
    sockState = "open" =>
      \A s \in {St} : \A m \in Responses :
         (/\ m.success /\ m.body.kind # "none"
          /\ m.request_seq \in DOMAIN s.pendingRequests
          /\ s.calls[s.pendingRequests[m.request_seq].call].origin = "setBreakpoints")
         =>
         LET p == s.calls[s.pendingRequests[m.request_seq].call].arg
             list == IF m.body.kind = "bps" THEN m.body.val ELSE << >>
             reg == afterData(s, m).breakpoints
         IN /\ Cardinality({i \in 1..Len(reg) : reg[i].path = p}) = 1
            /\ \A i \in 1..Len(reg) : reg[i].path = p => reg[i].bps = list
            /\ \A q \in Paths \ {p} :
                  {reg[i] : i \in {j \in 1..Len(reg) : reg[j].path = q}}
                  = {s.breakpoints[i] :
                        i \in {j \in 1..Len(s.breakpoints) :
                                  s.breakpoints[j].path = q}}
            /\ reportedFor(reg, scriptOf(p))
                  = [k \in 1..Len(list) |->
                        [script |-> scriptOf(p), line |-> list[k].line,
                         enabled |-> list[k].verified]]

\* setBreakpoints("a.gd") answered with lines 1 and 2, then with line 5:
\* getBreakpoints reports line 5 only
C10_Witness ==
    /\ replaced = <<bp1, bp2>>
    /\ breakpoints = <<[path |-> "a.gd", bps |-> <<bp5>>]>>
    /\ getBreakpoints(breakpoints)
          = <<[script |-> "res://a.gd", line |-> 5, enabled |-> TRUE]>>

(***************************************************************************)
(* Frame codec                                                             *)
(***************************************************************************)
\* the bytes of a list of segments
RECURSIVE bytesOf(_)
bytesOf(segs) ==
    IF segs = << >> THEN << >> ELSE Head(segs).bytes \o bytesOf(Tail(segs))

\* what a list of segments should dispatch: the message of each frame
\* whose payload is a JSON text, in order
RECURSIVE expected(_)
expected(segs) ==
    IF segs = << >> THEN << >>
    ELSE (IF Head(segs).kind = "frame" /\ parse(Head(segs).payload).ok
          THEN <<parse(Head(segs).payload).message>> ELSE << >>)
         \o expected(Tail(segs))

IsAscii(seg) == Len(seg.bytes) = Len(toString(seg.bytes))
AllAscii(segs) == \A i \in 1..Len(segs) : IsAscii(segs[i])
Delivered == sent # << >> /\ stream = << >>

\* C11: once every byte written has been delivered, in whatever chunks,
\* the messages dispatched and the characters left in the buffer are those
\* of a delivery of the same bytes in one chunk.
C11_SplitInvariant ==
    Delivered =>
       LET one == decodeLoop(toString(bytesOf(sent)), << >>, 0)
       IN dispatched = one.out /\ buffer = one.buffer

\* the same for streams of ASCII characters
C11_SplitInvariantAscii ==
    (Delivered /\ AllAscii(sent)) =>
       LET one == decodeLoop(toString(bytesOf(sent)), << >>, 0)
       IN dispatched = one.out /\ buffer = one.buffer

\* a frame has been delivered in two chunks, the first ending inside it
C11_Witness ==
    /\ Len(sent) = 1 /\ sent[1].kind = "frame"
    /\ stream # << >> /\ buffer # << >> /\ dispatched = << >>

\* C12: when the frame sendRequest writes for a request is the whole
\* stream and has been delivered, exactly that request has been decoded and
\* the buffer is empty.
C12_RoundTrip ==
    \A q \in Requests :
       (sent = <<frame(stringify(q))>> /\ stream = << >>)
       => (dispatched = <<q>> /\ buffer = << >>)

\* the same for the requests whose JSON text is ASCII
C12_RoundTripAscii ==
    \A q \in Requests :
       (sent = <<frame(stringify(q))>> /\ stream = << >> /\ IsAscii(frame(stringify(q))))
       => (dispatched = <<q>> /\ buffer = << >>)

C12_Witness ==
    \E q \in Requests :
       sent = <<frame(stringify(q))>> /\ stream = << >> /\ dispatched = <<q>>

IsJunk(seg) == seg.kind = "junk"
IsBadJson(seg) == seg.kind = "frame" /\ ~parse(seg.payload).ok
GoodAsciiFrames ==
    {seg \in Segments : seg.kind = "frame" /\ parse(seg.payload).ok /\ IsAscii(seg)}

\* C13: a header block without a parseable Content-Length is discarded up
\* to and including its blank line and nothing is dispatched for it; once
\* an ASCII stream that holds such a block has been delivered, in whatever
\* chunks, the messages dispatched are those of its well-formed frames, in
\* order; the loop makes at most one iteration per four characters.
C13_ResyncAfterBadHeader ==
    /\ (Delivered /\ AllAscii(sent) /\ \E i \in 1..Len(sent) : IsJunk(sent[i]))
          => dispatched = expected(sent)
    /\ buffer = << >> =>
          \A j \in {seg \in Segments : IsJunk(seg)} :
             LET d == decodeLoop(buffer \o toString(j.bytes), << >>, 0)
             IN d.buffer = j.payload /\ d.out = << >> /\ d.steps = 1
    /\ LET all == buffer \o toString(stream)
       IN decodeLoop(all, << >>, 0).steps <= Len(all) \div 4

\* a malformed header block was followed by a frame, which was dispatched
C13_Witness ==
    /\ Delivered /\ Len(sent) = 2
    /\ IsJunk(sent[1]) /\ sent[2] \in GoodAsciiFrames
    /\ dispatched = <<parse(sent[2].payload).message>>

lastN(seq, n) == IF Len(seq) <= n THEN seq ELSE SubSeq(seq, Len(seq) - n + 1, Len(seq))
\* the runtime errors stored since the error buffer was last cleared
errorsSinceClear == SubSeq(errorLog, errorBase + 1, Len(errorLog))
probeMessage == [category |-> "print", message |-> <<tok("probe")>>,
                 source |-> <<tok("stdout")>>]
probeError == [type |-> "error", message |-> <<tok("probe")>>,
               script |-> << >>, line |-> 0, function |-> << >>]

\* C15: with no clear since the process started, the debug-message buffer
\* holds the last 500 messages inserted, in insertion order; the
\* runtime-error buffer holds the last 100 errors inserted since its last
\* clear, in insertion order; an insertion into a full buffer removes the
\* oldest entry and nothing else.
C15_FifoKeepsNewest ==
    /\ ~debugCleared =>
          /\ apDebugMessages = lastN(debugLog, MAX_DEBUG_MESSAGES)
          /\ debugMessages = apDebugMessages
    /\ runtimeErrors = lastN(errorsSinceClear, MAX_RUNTIME_ERRORS)
    /\ Len(debugMessages) = MAX_DEBUG_MESSAGES =>
          pushDebug(debugMessages, probeMessage)
             = Append(Tail(debugMessages), probeMessage)
    /\ Len(runtimeErrors) = MAX_RUNTIME_ERRORS =>
          pushError(runtimeErrors, probeError)
             = Append(Tail(runtimeErrors), probeError)

\* both buffers have received more than their capacity and the last
\* insertion into the debug buffer evicted one entry
C15_Witness ==
    /\ ~debugCleared /\ errorBase = 0
    /\ Len(debugLog) = MAX_DEBUG_MESSAGES + 1
    /\ Len(errorLog) > MAX_RUNTIME_ERRORS
    /\ Len(apDebugMessages) = MAX_DEBUG_MESSAGES
    /\ apDebugMessages[1] = debugLog[2]
    /\ Len(runtimeErrors) = MAX_RUNTIME_ERRORS

\* C16: in every reachable state the debug-message buffer (the array of the
\* handlers and the one of the process record) holds at most 500 entries
\* and the runtime-error buffer at most 100.
C16_BuffersBounded ==
    /\ Len(debugMessages) <= MAX_DEBUG_MESSAGES
    /\ Len(apDebugMessages) <= MAX_DEBUG_MESSAGES
    /\ Len(runtimeErrors) <= MAX_RUNTIME_ERRORS

\* a full debug buffer after a burst of stdout lines and one more line
C16_Witness ==
    /\ Len(debugLog) > MAX_DEBUG_MESSAGES
    /\ Len(debugMessages) = MAX_DEBUG_MESSAGES
    /\ debugMessages[MAX_DEBUG_MESSAGES].category = "print"

\* C17: while a process is active, get_debug_output with clear_after_read
\* empties the debug-message buffer and leaves the runtime errors as they
\* were, get_runtime_errors with clear_after_read empties the runtime
\* errors and leaves the debug-message buffer as it was, and a read without
\* clear_after_read changes nothing.
C17_IndependentClears ==
    activeProcess = "running" =>
       \A t \in {Tel} :
          /\ getDebugOutput(t, TRUE).apDebugMessages = << >>
          /\ getDebugOutput(t, TRUE).runtimeErrors = t.runtimeErrors
          /\ getRuntimeErrors(t, TRUE).runtimeErrors = << >>
          /\ getRuntimeErrors(t, TRUE).apDebugMessages = t.apDebugMessages
          /\ getRuntimeErrors(t, TRUE).debugMessages = t.debugMessages
          /\ getDebugOutput(t, FALSE) = t
          /\ getRuntimeErrors(t, FALSE) = t

\* the debug buffer has been cleared while runtime errors were stored
C17_Witness ==
    /\ activeProcess = "running" /\ debugCleared
    /\ debugLog # << >> /\ apDebugMessages = << >>
    /\ runtimeErrors # << >> /\ errorBase = 0

\* C18: when the stderr stream ends with a newline, and no message has been
\* evicted or cleared, the stderr handler has pushed one DebugMessage per
\* non-blank line of the stream.
C18_OneMessagePerLine ==
    (/\ partialLine = << >> /\ ~debugCleared
     /\ Len(debugLog) <= MAX_DEBUG_MESSAGES)
    => stderrMessages = stderrLines

\* one line of the stream, delivered in two chunks, has produced two
\* messages
C18_Witness ==
    /\ partialLine = << >> /\ ~debugCleared
    /\ stderrLines = 1 /\ stderrMessages = 2

\* the RuntimeError C19 expects for a continuation line
located(start, function, lineNumber) ==
    [type |-> errorStartType(start), message |-> errorStartMessage(start),
     script |-> <<tok("res://"), tok("a.gd")>>, line |-> lineNumber,
     function |-> function]

\* C19: when the pending line is `ERROR: Parse Error: unexpected token`
\* (or the warning line), each of the continuation lines
\* `at: GDScript::reload (res://a.gd:4)`, `at: _ready (res://a.gd:4)` and
\* `at: GDScript::reload (a.gd:4)` stores exactly one RuntimeError, with
\* script res://a.gd, line 4, the function named, and the type of the
\* start line.
C19_LocatedError ==
    pendingErrorLine \in {errorLine, warningLine} =>
       /\ parseAndStoreError(atQualifiedRes, runtimeErrors, pendingErrorLine).stored
             = <<located(pendingErrorLine,
                         <<tok("GDScript"), tok("::"), tok("reload")>>, 4)>>
       /\ parseAndStoreError(atSimpleRes, runtimeErrors, pendingErrorLine).stored
             = <<located(pendingErrorLine, <<tok("_ready")>>, 4)>>
       /\ parseAndStoreError(atQualifiedRel, runtimeErrors, pendingErrorLine).stored
             = <<located(pendingErrorLine,
                         <<tok("GDScript"), tok("::"), tok("reload")>>, 4)>>

\* the same without the continuation line that names a qualified function
\* and a res:// path
C19_LocatedErrorSimple ==
    pendingErrorLine \in {errorLine, warningLine} =>
       /\ parseAndStoreError(atSimpleRes, runtimeErrors, pendingErrorLine).stored
             = <<located(pendingErrorLine, <<tok("_ready")>>, 4)>>
       /\ parseAndStoreError(atQualifiedRel, runtimeErrors, pendingErrorLine).stored
             = <<located(pendingErrorLine,
                         <<tok("GDScript"), tok("::"), tok("reload")>>, 4)>>

\* the two lines of the example have been fed and the record stored has
\* no script
C19_Witness ==
    /\ stderrLines = 2 /\ startLines = 1 /\ Len(errorLog) = 1
    /\ Len(debugLog) = 2 /\ debugLog[2].message = trim(atQualifiedRes)
    /\ errorLog[1].message = errorStartMessage(errorLine)
    /\ errorLog[1].script = << >> /\ errorLog[1].line = 0

\* C20: once the process is gone, every error/warning start line of its
\* stderr stream has been stored as one RuntimeError.
C20_StartLinesRecorded ==
    (activeProcess = "null" /\ runs > 0) => Len(errorLog) = startLines

\* the process has gone after a start line that nothing followed: the
\* line is still pending and no record exists
C20_Witness ==
    /\ activeProcess = "null" /\ runs > 0
    /\ startLines = 1 /\ errorLog = << >> /\ pendingErrorLine = errorLine

(***************************************************************************)
(* The symbol table                                                        *)
(***************************************************************************)
\* the functions of the table whose range contains the line
containing(info, line) ==
    {k \in 1..Len(info.functions) :
        info.functions[k].startLine <= line /\ line <= info.functions[k].endLine}

\* C21: getVariablesAtLine(table, line) returns all class variables plus,
\* for the function whose [startLine, endLine] contains line, exactly its
\* parameters and locals declared at a line <= line, and nothing from any
\* other function.
C21_ScopeAtLine ==
    queryLine # 0 =>
        LET n == Len(scriptInfo.classVariables)
            inside == containing(scriptInfo, queryLine)
        IN  /\ Cardinality(inside) <= 1
            /\ Len(variables) >= n
            /\ SubSeq(variables, 1, n) = scriptInfo.classVariables
            /\ Range(SubSeq(variables, n + 1, Len(variables)))
                 = UNION {{localVar \in Range(scriptInfo.functions[k].localVariables) :
                              localVar.line <= queryLine} : k \in inside}

\* a class variable on line 1, f on lines 2-3 with a local declared on line
\* 3, g on line 4 with a parameter; the query at line 2 returned the class
\* variable and the parameters of f only
C21_Witness ==
    /\ content = <<classVarLine, funcLineF, localVarLine, funcLineG>>
    /\ queryLine = 2
    /\ variables = <<[name |-> "v", line |-> 1, scope |-> "class"],
                     [name |-> "a", line |-> 2, scope |-> "parameter"],
                     [name |-> "b", line |-> 2, scope |-> "parameter"]>>

\* C22: the functions of a parsed table are ordered by strictly increasing
\* startLine, each has startLine <= endLine, and their ranges are pairwise
\* disjoint.
C22_FunctionsDisjoint ==
    scriptInfo.parsed =>
        LET functions == scriptInfo.functions
        IN  /\ \A k \in 1..Len(functions) :
                  functions[k].startLine <= functions[k].endLine
            /\ \A j, k \in 1..Len(functions) :
                  j < k => functions[j].endLine < functions[k].startLine
            /\ \A line \in 1..Len(content) :
                  Cardinality(containing(scriptInfo, line)) <= 1

\* a table with two functions, the first of more than one line
C22_Witness ==
    /\ scriptInfo.parsed
    /\ Len(scriptInfo.functions) = 2
    /\ scriptInfo.functions[1].endLine > scriptInfo.functions[1].startLine

\* C29: a function-definition line is recognised as the start of a function
\* whatever its indentation: the table has a function starting on that line
\* with the parameters of the definition.
C29_FunctionAtAnyIndent ==
    scriptInfo.parsed =>
        \A n \in 1..Len(content) :
            funcPattern_AnyIndent(content[n]) =>
                \E func \in Range(scriptInfo.functions) :
                    /\ func.startLine = n
                    /\ func.name = content[n].text[2]
                    /\ func.parameters = parseParameters(paramsStr(content[n]))

\* the same for the definitions that start at the first column
C29_FunctionAtFirstColumn ==
    scriptInfo.parsed =>
        \A n \in 1..Len(content) :
            (funcPattern_AnyIndent(content[n]) /\ content[n].indent = 0) =>
                \E func \in Range(scriptInfo.functions) :
                    /\ func.startLine = n
                    /\ func.name = content[n].text[2]
                    /\ func.parameters = parseParameters(paramsStr(content[n]))

\* a parsed script whose first line is an indented definition followed by a
\* declaration: the table has no function
C29_Witness ==
    /\ scriptInfo.parsed
    /\ Len(content) = 2
    /\ content[1] = innerFuncLine
    /\ content[2] = localVarLine
    /\ scriptInfo.functions = << >>

\* the lines after line s that end the function defined on line s
boundaries(lines, s) ==
    {n \in (s + 1)..Len(lines) :
        /\ lines[n].text # << >>
        /\ ~startsWithHash(lines[n].text)
        /\ lines[n].indent <= lines[s].indent}

Min(S) == CHOOSE n \in S : \A m \in S : n <= m

\* C30: a function ends on the line before the first later line that is
\* neither blank nor a comment and is indented no more than its definition
\* line; a function still open at the end of the input ends at the last
\* line.
C30_FunctionEnd ==
    scriptInfo.parsed =>
        \A func \in Range(scriptInfo.functions) :
            LET B == boundaries(content, func.startLine)
            IN  func.endLine = IF B = {} THEN Len(content) ELSE Min(B) - 1

\* a function whose body holds a comment or a blank line at the first
\* column and which ends before the last line
C30_Witness ==
    /\ scriptInfo.parsed
    /\ \E func \in Range(scriptInfo.functions) :
          /\ func.endLine < Len(content)
          /\ \E n \in (func.startLine + 1)..func.endLine :
                content[n] \in {blankLine, commentLine}

(***************************************************************************)
(* get_local_variables                                                     *)
(***************************************************************************)
\* the call has returned
Returned == localsResult.kind # "none"

\* C23: get_local_variables called on a connected session that is not
\* paused returns the not-paused result, and never an error response,
\* whatever the debug server answers or fails to answer.
C23_NotPausedIsNotAnError ==
    (/\ Returned
     /\ localsCall.connectedAtCall
     /\ ~localsCall.pausedAtCall
     /\ ~localsCall.stopped)
        => localsResult.kind = "not_paused"

\* the stack trace answered with no frame gives the not-paused result
C23_EmptyStackIsNotPaused ==
    localsResult.kind = "not_paused" =>
        /\ localsResult.variables = << >>
        /\ localsCall.connectedAtCall
        /\ localsCall.names = << >>

\* a call made on a connected session that was not paused, and did not
\* pause during the call, has returned an error response
C23_Witness ==
    /\ localsResult.kind = "error"
    /\ localsCall.connectedAtCall
    /\ ~localsCall.pausedAtCall
    /\ ~localsCall.stopped
    /\ ~paused

\* the names of the variables of a result
namesOf(vs) == [k \in 1..Len(vs) |-> vs[k].name]

\* the candidates whose evaluation gave a result, in candidate order
RECURSIVE evaluatedNames(_)
evaluatedNames(evaluated) ==
    IF evaluated = << >> THEN << >>
    ELSE LET front == evaluatedNames(SubSeq(evaluated, 1, Len(evaluated) - 1))
             last == evaluated[Len(evaluated)]
         IN  IF last.failed \/ last.null THEN front
             ELSE Append(front, last.name)

\* C24: every candidate name is evaluated on its own: a name whose evaluate
\* request fails (failure response or timeout) is left out, the remaining
\* candidates are still evaluated, the names that gave a result appear in
\* candidate order, and the call does not return an error.
C24_FailedNamesOmitted ==
    (Returned /\ localsCall.names # << >>) =>
        /\ localsResult.kind = "ok"
        /\ namesOf(localsCall.evaluated) = localsCall.names
        /\ namesOf(localsResult.variables) = evaluatedNames(localsCall.evaluated)

\* of the candidates self, c, x the second failed and the others are
\* reported
C24_Witness ==
    /\ localsResult.kind = "ok"
    /\ localsCall.names = <<"self", "c", "x">>
    /\ localsCall.evaluated[2].failed
    /\ namesOf(localsResult.variables) = <<"self", "x">>

\* the answer to the evaluate request of a reported variable
answerOf(name) ==
    (CHOOSE e \in Range(localsCall.evaluated) : e.name = name).result

\* C27: with maxDepth = d, a variable whose evaluate result carries a
\* non-zero child reference is reported with a value expanded to depth d
\* (annotated at the depth limit), not with the unexpanded text.
C27_ExpandedToDepth ==
    localsResult.kind = "ok" =>
        \A v \in Range(localsResult.variables) :
            answerOf(v.name).variablesReference # 0
                => v.value # answerOf(v.name).result

\* a call with maxDepth = 2 has reported a variable that has children
C27_Witness ==
    /\ localsResult.kind = "ok"
    /\ localsCall.maxDepth = 2
    /\ \E v \in Range(localsResult.variables) :
          /\ answerOf(v.name).variablesReference # 0
          /\ v.value = "<Object#1>"

(***************************************************************************)
(* Failures and the session                                                *)
(***************************************************************************)
\* state t is state s with call c settled and nothing else of the session
\* touched
onlySettles(s, t, c) ==
    /\ t.connected = s.connected
    /\ t.paused = s.paused
    /\ t.socket = s.socket
    /\ t.currentThreadId = s.currentThreadId
    /\ t.breakpoints = s.breakpoints
    /\ t.capabilities = s.capabilities
    /\ \A k \in DOMAIN s.pendingRequests \ {s.calls[c].seq} :
          /\ k \in DOMAIN t.pendingRequests
          /\ t.pendingRequests[k] = s.pendingRequests[k]
    /\ \A d \in 1..Len(s.calls) \ {c} : t.calls[d] = s.calls[d]

\* C25: a failure response, or the timeout, of a pending request rejects
\* the call that issued the request and leaves connected, paused, the
\* thread id, the breakpoint registry and the other pending requests as
\* they were.
C25_FailureIsLocal ==
    \A s \in {St} :
       /\ \A m \in Responses :
             (~m.success /\ m.request_seq \in DOMAIN s.pendingRequests) =>
                \A t \in {afterData(s, m)} :
                   LET c == s.pendingRequests[m.request_seq].call
                   IN  /\ t.calls[c].outcome = "failed"
                       /\ m.request_seq \notin DOMAIN t.pendingRequests
                       /\ onlySettles(s, t, c)
       /\ \A c \in timers :
             s.calls[c].outcome = "pending" =>
                \A t \in {afterTimer(s, c)} :
                   /\ t.calls[c].outcome = "timeout"
                   /\ onlySettles(s, t, c)

\* on a paused session whose thread id is not the initial one, a request
\* has failed while another is pending
C25_Witness ==
    /\ connected /\ paused /\ currentThreadId = 2
    /\ \E c, d \in Issued :
          /\ calls[c].outcome = "failed"
          /\ calls[d].outcome = "pending"
          /\ calls[d].seq \in DOMAIN pendingRequests

\* C26: the session is connected only after the transport handshake has
\* succeeded and the initialize/configurationDone pair has completed.
C26_ConnectedAfterHandshake ==
    connected =>
        \E c, d \in Issued :
            /\ c < d
            /\ calls[c].command = "initialize"
            /\ calls[c].outcome = "resolved"
            /\ calls[d].command = "configurationDone"
            /\ calls[d].outcome = "resolved"

\* configurationDone is sent only after the response to initialize
C26_ConfigurationDoneAfterInitialize ==
    \A d \in Issued :
        calls[d].command = "configurationDone" =>
            \E c \in 1..(d - 1) :
                /\ calls[c].command = "initialize"
                /\ calls[c].outcome = "resolved"
                /\ calls[c].seq < calls[d].seq

\* the initialize request has failed, configurationDone was never sent,
\* and isConnected() is true
C26_Witness ==
    /\ connected
    /\ \E c \in Issued :
          /\ calls[c].command = "initialize"
          /\ calls[c].outcome \in {"failed", "timeout"}
    /\ \A d \in Issued : calls[d].command # "configurationDone"

(***************************************************************************)
(* The bridge                                                              *)
(***************************************************************************)
\* response has the form the bridge gives to command
answers(command, response) ==
    CASE command = <<"ping">> -> response = <<"PONG">>
      [] command = <<"status">> ->
            \/ response = <<"STATUS:STOPPED">>
            \/ begins_with(response, "STATUS:PLAYING:") /\ Len(response) > 1
      [] command = <<"play_main">> -> response = <<"OK:PLAYING_MAIN">>
      [] command = <<"stop">> -> response = <<"OK:STOPPED">>
      [] begins_with(command, "play_scene:") ->
            response = <<"OK:PLAYING:">> \o substr(command)
      [] begins_with(command, "get_signals:") ->
            \/ begins_with(response, "SIGNALS:")
            \/ response = <<"ERROR:NO_SCENE_OPEN">>
            \/ response = <<"ERROR:NODE_NOT_FOUND:">> \o substr(command)
      [] begins_with(command, "get_signal_connections:") ->
            \/ begins_with(response, "CONNECTIONS:")
            \/ response = <<"ERROR:NO_SCENE_OPEN">>
            \/ begins_with(response, "ERROR:NODE_NOT_FOUND:")
      [] OTHER -> response = <<"ERROR:UNKNOWN_COMMAND:">> \o command

\* every command written has been read
AllRead == connection \in {"active", "closed", "removed"} /\ inbox = << >>

\* C28: every command sent to the bridge receives exactly one response, of
\* the form of that command, also when several commands arrive on the
\* connection before the plugin polls it.
C28_OneResponsePerCommand ==
    AllRead =>
        /\ Len(responses) = Len(written)
        /\ \A k \in 1..Len(written) : answers(written[k], responses[k])

\* the same when every poll finds at most one command
C28_OneResponsePerPolledCommand ==
    (AllRead /\ \A k \in 1..Len(reads) : reads[k] = 1) =>
        /\ Len(responses) = Len(written)
        /\ \A k \in 1..Len(written) : answers(written[k], responses[k])

\* two commands were read by one poll, which gave one response
C28_Witness ==
    /\ AllRead
    /\ written = <<<<"ping">>, <<"status">>>>
    /\ reads = <<2>>
    /\ Len(responses) = 1

\* three commands, each read by a poll of its own and answered
C28_WitnessPolled ==
    /\ AllRead
    /\ reads = <<1, 1, 1>>
    /\ Len(responses) = 3
    /\ written[3] = <<"bogus">>


\* C37: in every reachable state of the client, isPaused() implies
\* isConnected(), whatever the interleaving of connect, socket error, socket
\* close, disconnect() and protocol events.
C37_PausedImpliesConnected == paused => connected

\* what the handlers give: a paused client is connected, or its socket has
\* raised 'error' and has not raised 'close' yet
C37_PausedWhileSocketLive ==
    paused => (connected \/ (sockState = "closing" /\ socket # 0))

\* a stopped event was handled and the socket then raised 'error'
C37_Witness ==
    /\ paused
    /\ ~connected
    /\ sockState = "closing"
    /\ lastEvent = "stopped"

\* the requests a caller can make of sendRequest
RequestKinds == {"initialize", "setBreakpoints", "stackTrace"}

\* C39: sendRequest on a client that is not connected rejects at once and
\* changes nothing: the sequence number, the pending table, the timers and
\* the requests written are those of before.
C39_NotConnectedChangesNothing ==
    ~connected =>
        \A command \in RequestKinds : \A p \in Paths \cup {""} :
            LET t == sendRequest(St, command, command, p)
            IN /\ t.rejects = rejects + 1
               /\ t.sequenceNumber = sequenceNumber
               /\ t.pendingRequests = pendingRequests
               /\ t.timers = timers
               /\ t.calls = calls
               /\ t.socket = socket
               /\ t.sockState = sockState

\* two requests were rejected on a client that was disconnected, and no
\* request was ever written
C39_Witness ==
    /\ ~connected
    /\ sinceDisconnect
    /\ rejects = 2
    /\ calls = << >>
    /\ sequenceNumber = 1


\* the list of the response for path p that was received last, << >> when
\* none was received
RECURSIVE lastReceived(_, _)
lastReceived(log, p) ==
    IF log = << >> THEN << >>
    ELSE IF log[Len(log)].path = p THEN log[Len(log)].bps
    ELSE lastReceived(SubSeq(log, 1, Len(log) - 1), p)

\* C38: after any sequence of setBreakpoints calls, concurrent or not, the
\* registry entry of each path is the breakpoint list of the successful
\* response for that path that was received last, whichever request was
\* issued last; a call that fails or times out leaves the registry as it was.
C38_LastReceivedWins ==
    \A p \in Paths : entryOf(breakpoints, p) = lastReceived(received, p)

\* two calls for one path were pending together and the response to the
\* second arrived before the response to the first, which the registry holds
C38_Witness ==
    /\ Len(calls) = 2
    /\ calls[1].outcome = "resolved" /\ calls[2].outcome = "resolved"
    /\ received = <<[path |-> "a.gd", bps |-> <<bp5>>, seq |-> 2],
                    [path |-> "a.gd", bps |-> <<bp1, bp2>>, seq |-> 1]>>
    /\ replaced = <<bp5>>
    /\ breakpoints = <<[path |-> "a.gd", bps |-> <<bp1, bp2>>]>>


\* C34: after get_debug_output with clear_after_read on a running process,
\* the buffer that later get_debug_output calls read holds the messages of
\* the lines received after the clear, in arrival order: when a line arrives
\* after a clear, its message is the newest entry of the buffer read.
C34_LinesAfterClearAreRead ==
    [][(/\ debugCleared /\ activeProcess = "running"
        /\ activeProcess' = "running" /\ runs' = runs
        /\ Len(debugLog') > Len(debugLog))
       => /\ apDebugMessages' # << >>
          /\ apDebugMessages'[Len(apDebugMessages')] = debugLog'[Len(debugLog')]]_vars


\* C36: for every stderr line that matches the error/warning start pattern
\* the two classifiers agree: the category of the DebugMessage made from
\* the line is the type of the RuntimeError recorded for it.
C36_ClassifiersAgree ==
    errorStart(pendingErrorLine) =>
        LET recorded ==
                parseAndStoreError(atSimpleRes, runtimeErrors, pendingErrorLine).stored
        IN /\ Len(recorded) = 1
           /\ parseStderrLine(pendingErrorLine).category = recorded[1].type

\* the same for the start lines whose text names no other severity
C36_ClassifiersAgreeOnPlainLines ==
    (/\ errorStart(pendingErrorLine)
     /\ ~hasWarning(errorStartMessage(pendingErrorLine)))
    =>
        LET recorded ==
                parseAndStoreError(atSimpleRes, runtimeErrors, pendingErrorLine).stored
        IN /\ Len(recorded) = 1
           /\ parseStderrLine(pendingErrorLine).category = recorded[1].type

\* `ERROR: warning unused variable` and its location line have been
\* received: the message of the first is a warning, the record an error
C36_Witness ==
    /\ stderrLines = 2 /\ startLines = 1
    /\ Len(debugLog) = 2 /\ debugLog[1].category = "warning"
    /\ Len(errorLog) = 1 /\ errorLog[1].type = "error"
    /\ errorLog[1].message = errorStartMessage(errorNamingWarning)


\* what readers of the active process are given
activeBuffers ==
    <<debugMessages, apDebugMessages, runtimeErrors, pendingErrorLine,
      debugLog, errorLog>>

\* C35: when run_project has replaced a running process, the exit or error
\* event of the replaced process does not clear the record of the new
\* process, and the lines the replaced process still writes are not added
\* to the buffers of the new process.
C35_ReplacedProcessIsApart ==
    [][(oldProcess # << >> /\ oldProcess' # << >>) =>
          /\ (oldProcess[1].alive /\ ~oldProcess'[1].alive)
                => activeProcess' = activeProcess
          /\ oldProcess'[1].t # oldProcess[1].t
                => UNCHANGED activeBuffers]_vars

\* the replaced process wrote after it was replaced and has exited; the
\* new process is the active one and its buffers are empty
C35_Witness ==
    /\ runs = 2 /\ activeProcess = "running"
    /\ chunks = 0 /\ activeBuffers = <<<< >>, << >>, << >>, << >>, << >>, << >>>>
    /\ oldProcess # << >> /\ ~oldProcess[1].alive
    /\ oldProcess[1].t.chunks = 2
    /\ oldProcess[1].t.debugLog # << >> /\ oldProcess[1].t.errorLog # << >>


\* C32: a stack-frame id is used within the pause in which it was obtained:
\* once a continued event, or a later stopped event, has been handled, no
\* evaluate request of get_local_variables carries the frame id of the
\* stackTrace response received before it.  (Every evaluate of a call
\* carries the frame id the call took from its stackTrace response.)
C32_FrameIdWithinPause == ~localsCall.staleSent

\* the evaluate requests sent before any such event
C32_FirstEvaluateWithinPause ==
    (localsCall.phase = "evaluate" /\ localsCall.next = 1)
        => ~localsCall.staleSent

\* the call took frame 3, a continued or stopped event was handled while
\* its first evaluate was pending, the second evaluate was sent with frame
\* 3 and answered, and the call returned both variables
C32_Witness ==
    /\ localsCall.staleSent /\ localsCall.resumed
    /\ localsCall.frameId = frameG.id
    /\ localsResult.kind = "ok" /\ Len(localsResult.variables) = 2


\* the largest number of variables requests of an expansion to depth d
RECURSIVE requestBound(_)
requestBound(d) == IF d = 0 THEN 0 ELSE 1 + ChildLimit * requestBound(d - 1)

\* number of entries of a text that are the token c
count(text, c) == Cardinality({i \in 1..Len(text) : text[i] = tok(c)})

\* C31: an expansion ends for every maxDepth, also when the handles of the
\* debug server form a cycle: a variables request is sent only for a value
\* at a depth below maxDepth whose handle is not zero; a value with a
\* handle at depth maxDepth or deeper is returned as its text with the
\* depth-limit marker; a level shows at most 10 children, followed by
\* `... and N more` when there are more.
C31_ExpansionBounded ==
    expansion.done =>
        LET e == expansion
            root == e.variable
            answer == e.heap[root.variablesReference]
            n == Len(answer.variables)
        IN  /\ Len(e.requests) <= requestBound(e.maxDepth)
            /\ \A k \in 1..Len(e.requests) :
                  e.requests[k].depth < e.maxDepth /\ e.requests[k].ref # 0
            /\ (root.variablesReference = 0) => e.text = <<tok(root.value)>>
            /\ \A d \in e.maxDepth..(e.maxDepth + 1) :
                  expandVariableValue(e.heap, object(1), e.maxDepth, d)
                     = [text |-> <<tok(object(1).value), tok(" [depth limit]")>>,
                        requests |-> << >>]
            /\ count(e.text, " [depth limit]") + count(e.text, "{ ")
                  <= 1 + ChildLimit * Len(e.requests)
            /\ count(e.text, "... and ") <= Len(e.requests)
            /\ (root.variablesReference # 0 /\ e.maxDepth = 1 /\ answer.ok /\ n > 0) =>
                  /\ e.requests = <<[ref |-> root.variablesReference, depth |-> 0]>>
                  /\ count(e.text, ": ") = (IF n > ChildLimit THEN ChildLimit ELSE n)
                  /\ n > ChildLimit =>
                        SubSeq(e.text, Len(e.text) - 3, Len(e.text))
                           = <<tok("... and "), num(n - ChildLimit), tok(" more"),
                               tok(" }")>>
                  /\ n <= ChildLimit => count(e.text, "... and ") = 0

\* a handle whose first child is the handle itself, expanded to depth 3:
\* three requests, one per level, and the marker at the third level
C31_Witness ==
    /\ expansion.done
    /\ expansion.maxDepth = 3
    /\ expansion.variable = object(1)
    /\ expansion.heap[1] = [ok |-> TRUE, variables |-> many(1)]
    /\ expansion.requests = <<[ref |-> 1, depth |-> 0], [ref |-> 1, depth |-> 1],
                              [ref |-> 1, depth |-> 2]>>
    /\ count(expansion.text, " [depth limit]") = 1
    /\ count(expansion.text, "... and ") = 3


\* the clients that are connected
connectedClients ==
    {i \in 1..Len(oldClients) : oldClients[i].client.connected}
        \cup (IF connected THEN {0} ELSE {})

\* every request that was in flight on a replaced client has been rejected
\* by its timer
AllRejected ==
    \A i \in 1..Len(oldClients) : \A c \in oldClients[i].inFlight :
        oldClients[i].client.calls[c].outcome = "timeout"

C33_Discarded ==
    /\ Cardinality(connectedClients) <= 1
    /\ \A i \in 1..Len(oldClients) : \A c \in oldClients[i].inFlight :
          /\ oldClients[i].client.calls[c].outcome \in {"pending", "timeout"}
          /\ oldClients[i].client.calls[c].settles <= 1
    /\ sockState = "connecting" => (pendingRequests = EmptyMap /\ timers = {})

\* C33: when connect_debugger replaces a client, the requests in flight on
\* the old client are not migrated: no data arriving on the new connection
\* settles one of them, each is in the end rejected by its own timeout, and
\* the new client starts with an empty pending table; at no time are two
\* clients connected, also when connect_debugger calls overlap.
C33_ReplacedClientDiscarded ==
    /\ []C33_Discarded
    /\ (oldClients # << >>) ~> AllRejected

\* a client was replaced with its initialize request, number 1, in flight;
\* the new client sent its own request 1, which a response on the new
\* connection resolved, and the old request was rejected by its timer
C33_Witness ==
    /\ Len(oldClients) = 1
    /\ oldClients[1].inFlight = {1}
    /\ oldClients[1].client.calls[1].seq = 1
    /\ oldClients[1].client.calls[1].outcome = "timeout"
    /\ connected
    /\ Len(calls) = 2 /\ calls[1].seq = 1 /\ calls[1].outcome = "resolved"

=============================================================================
